---- MODULE Spec2Model ----
(***************************************************************************)
(* Run state machine, monitoring daemon and callback handler of the        *)
(* GA4GH WES service.                                                      *)
(*                                                                         *)
(* Spec           the FastAPI service (src/src/wes_service): the run       *)
(*                store, RunService.cancel_run, the WorkflowMonitor daemon *)
(*                with its per-run OmicsExecutor tasks, and the            *)
(*                CallbackService, each with its own ORM session.          *)
(* SpecValidator  CallbackService._is_valid_transition as a function, on   *)
(*                every pair of the WorkflowState enum.                    *)
(* SpecCallback   callbacks and cancel requests handled one after the      *)
(*                other, with the last two deliveries recorded.            *)
(* SpecDaemon     the Flask daemon (src/app): WorkflowDaemon, its          *)
(*                notification callback and the WES cancel endpoint.       *)
(* SpecFair       the service without callbacks, with weak fairness of the *)
(*                monitor loop, the tasks and the request handlers.        *)
(* SpecSuccess    the monitor and its tasks with a backend that succeeds,  *)
(*                with weak fairness of the loop and the tasks.            *)
(* SpecDaemonFair SpecDaemon with a daemon loop that keeps running and a   *)
(*                backend that reports a final status in the end.          *)
(* SpecManifestFailed  the monitor, its tasks and daemon restarts with a   *)
(*                backend that succeeds but whose output manifest is not   *)
(*                read.                                                    *)
(* SpecStore      RunService.create_run and list_runs with a client that   *)
(*                follows the page tokens.                                 *)
(* SpecTaskLogs   the polls that write the TaskLog rows of a RUNNING run, *)
(*                in the service's executor and in the Flask daemon.        *)
(* SpecCallbackRace  the monitor, its tasks and two callback handlers that *)
(*                can hold a request at the same time.                     *)
(* SpecMonitorFailure  one daemon process whose run store can raise in the *)
(*                monitor's iteration, with weak fairness of the loop and  *)
(*                the tasks.                                               *)
(***************************************************************************)
EXTENDS Integers, Sequences, FiniteSets, TLC

\* ------------------------------------------------------------------ bounds

\* Number of stored runs.
NumRuns == 2

\* Number of distinct EventBridge event ids the callbacks draw from.
NumEvents == 2

\* Number of times the daemon process is stopped and started again.
MaxRestarts == 1

\* ------------------------------------------------------- program constants

\* Settings.daemon_max_concurrent_runs, scaled to the number of runs.
daemon_max_concurrent_runs == 1

\* WorkflowDaemon.max_concurrent_workflows, scaled to the number of runs.
max_concurrent_workflows == 1

RunIds == 1 .. NumRuns

\* A wes_run_id that no stored run carries.
UnknownRunId == NumRuns + 1

EventIds == 1 .. NumEvents

\* None, for the string-valued columns; for the integer-valued ones; for outputs.
NULL == "NULL"

NULL_INT == 0 - 1

\* A value of datetime.utcnow() / datetime.now(timezone.utc).
NOW == "now"

NULL_OUTPUTS == { NULL }

\* ---------------------------------------------------------- WorkflowState

WorkflowState ==
    { "UNKNOWN", "QUEUED", "INITIALIZING", "RUNNING", "PAUSED", "COMPLETE",
      "EXECUTOR_ERROR", "SYSTEM_ERROR", "CANCELED", "CANCELING", "PREEMPTED" }

TERMINAL_STATES == { "COMPLETE", "EXECUTOR_ERROR", "CANCELED", "SYSTEM_ERROR" }

\* The dict valid_transitions; a state without a key has no entry in the
\* domain (dict.get(from_state, set()) then yields the empty set).
valid_transitions ==
    [ s \in { "UNKNOWN", "QUEUED", "INITIALIZING", "RUNNING", "PAUSED", "CANCELING" } |->
        CASE s = "UNKNOWN"      -> { "QUEUED", "INITIALIZING", "RUNNING", "SYSTEM_ERROR" }
          [] s = "QUEUED"       -> { "INITIALIZING", "RUNNING", "CANCELED", "SYSTEM_ERROR" }
          [] s = "INITIALIZING" -> { "RUNNING", "CANCELED", "EXECUTOR_ERROR", "SYSTEM_ERROR" }
          [] s = "RUNNING"      -> { "COMPLETE", "EXECUTOR_ERROR", "CANCELED", "SYSTEM_ERROR",
                                     "PAUSED" }
          [] s = "PAUSED"       -> { "RUNNING", "CANCELED", "SYSTEM_ERROR" }
          [] s = "CANCELING"    -> { "CANCELED", "SYSTEM_ERROR" } ]

\* Mutant: the terminal-state check is dropped and COMPLETE gets an outgoing edge.
IsValidTransition_NoTerminalCheck(from_state, to_state) ==
    \/ from_state \in DOMAIN valid_transitions /\ to_state \in valid_transitions[from_state]
    \/ from_state = "COMPLETE" /\ to_state = "EXECUTOR_ERROR"

\* Mutant: RUNNING is accepted as a next state of RUNNING.
IsValidTransition_SelfLoop(from_state, to_state) ==
    IF from_state \in TERMINAL_STATES
    THEN FALSE
    ELSE \/ from_state \in DOMAIN valid_transitions /\ to_state \in valid_transitions[from_state]
         \/ from_state = "RUNNING" /\ to_state = "RUNNING"

\* Mutant: the edge RUNNING -> PAUSED is missing.
IsValidTransition_NoPause(from_state, to_state) ==
    IF from_state \in TERMINAL_STATES
    THEN FALSE
    ELSE /\ from_state \in DOMAIN valid_transitions
         /\ to_state \in valid_transitions[from_state]
         /\ <<from_state, to_state>> # <<"RUNNING", "PAUSED">>

\* CallbackService._is_valid_transition
IsValidTransition(from_state, to_state) ==
    IF from_state \in TERMINAL_STATES
    THEN FALSE
    ELSE IF from_state \in DOMAIN valid_transitions
         THEN to_state \in valid_transitions[from_state]
         ELSE FALSE

\* The HealthOmics run statuses.
OmicsStatuses ==
    { "COMPLETED", "FAILED", "CANCELLED", "CANCELLED_RUNNING", "CANCELLED_STARTING",
      "STARTING", "RUNNING", "PENDING", "QUEUED", "STOPPING", "TERMINATING" }

\* CallbackService.OMICS_STATUS_MAP
OMICS_STATUS_MAP ==
    [ s \in OmicsStatuses |->
        CASE s = "COMPLETED" -> "COMPLETE"
          [] s = "FAILED" -> "EXECUTOR_ERROR"
          [] s \in { "CANCELLED", "CANCELLED_RUNNING", "CANCELLED_STARTING" } -> "CANCELED"
          [] OTHER -> "RUNNING" ]

\* ------------------------------------------------------------------ state

VARIABLES
    db,             \* workflow_runs table of the service: run id -> row
    api,            \* request handlers of the API process: handler -> session, response
    requests,       \* number of callback and cancel requests received so far
    active_runs,    \* WorkflowMonitor.active_runs
    checked_existing_runs, \* hasattr(self, '_checked_existing_runs')
    mon,            \* position of WorkflowMonitor._poll_and_execute
    task,           \* per-run background task of the monitor and its session
    restarts,       \* number of daemon restarts so far
    vcall,          \* SpecValidator: arguments and result of a validator call
    hist,           \* SpecCallback: the last two callback deliveries
    wf,             \* SpecDaemon: workflow_runs table of the Flask application
    dmn,            \* SpecDaemon: WorkflowDaemon loop position and counters
    st,             \* SpecStore: runs stored by RunService and a paging client
    tl              \* SpecTaskLogs: task_logs tables and the polls that fill them

vars == << db, api, requests, active_runs, checked_existing_runs, mon, task, restarts, vcall, hist, wf, dmn,
          st, tl >>

\* Columns of WorkflowRun that the daemon and the handlers write.
Columns == { "state", "start_time", "end_time", "exit_code", "outputs", "system_logs",
             "last_event_id" }

\* The row create_run stores: state QUEUED, no times, no exit code, no outputs.
NewRun ==
    [ state |-> "QUEUED", start_time |-> NULL, end_time |-> NULL, exit_code |-> NULL_INT,
      outputs |-> NULL_OUTPUTS, system_logs |-> << >>, last_event_id |-> NULL_INT ]

\* WorkflowRun declares no last_event_id (nor last_callback_time) column, so
\* hasattr(run, 'last_event_id') is False on every run.
HasLastEventId == FALSE

\* Columns of a JSON type: the ORM does not see a mutation in place of their
\* value (list.append, dict.update) unless flag_modified marks the column.
JsonColumns == { "outputs", "system_logs" }

\* Session.commit() of an ORM session (expire_on_commit=False) holding `local`,
\* loaded (or last flushed) as `loaded`: the UPDATE sets the scalar columns
\* whose value has changed since then and the columns in `flagged` (assigned a
\* fresh value such as the current time, or marked with flag_modified); every
\* other column keeps the value stored in the table.
Flush(row, loaded, local, flagged) ==
    [ c \in Columns |->
        IF c \in flagged \/ (c \notin JsonColumns /\ local[c] # loaded[c])
        THEN local[c] ELSE row[c] ]

\* `run.outputs or {}`
OutputsOrEmpty(outputs) == IF outputs = NULL_OUTPUTS THEN { } ELSE outputs

\* ------------------------------------------------------- callback handler

\* Optional fields a callback payload carries.
PayloadOptions ==
    { { }, { "failure_reason" }, { "output_mapping", "log_urls" },
      { "status_message", "failure_reason", "output_mapping", "log_urls" } }

\* Payload statuses: the pattern of OmicsStateChangeCallback.status admits the
\* keys of OMICS_STATUS_MAP and nothing else.
PayloadStatuses == OmicsStatuses

Payloads == [ status : PayloadStatuses, event_id : EventIds, options : PayloadOptions ]

\* The payloads of the service specification: every status, with all the
\* optional fields and one event id (SpecCallback draws from all of Payloads).
ServicePayloads ==
    { p \in Payloads :
        p.event_id = 1
        /\ p.options = { "status_message", "failure_reason", "output_mapping", "log_urls" } }

Response(code, previous_state, new_state, already_processed) ==
    [ code |-> code, previous_state |-> previous_state, new_state |-> new_state,
      already_processed |-> already_processed ]

\* OMICS_STATUS_MAP.get(payload.status), line 102.
MappedState(p) ==
    IF p.status \in DOMAIN OMICS_STATUS_MAP THEN OMICS_STATUS_MAP[p.status] ELSE NULL

\* Mutant: an accepted callback leaves run.state as it was loaded.
ApplyCallback_StateNotAssigned(run, p, new_state) ==
    LET logs1 == Append(run.system_logs, "State updated via callback")
        terminal == new_state \in TERMINAL_STATES
    IN  [ run EXCEPT
            !.system_logs = logs1,
            !.end_time = IF terminal /\ @ = NULL THEN NOW ELSE @,
            !.exit_code = IF terminal THEN (IF new_state = "COMPLETE" THEN 0 ELSE 1) ELSE @ ]

\* Lines 136-182: the mutation of the loaded run by an accepted callback.
ApplyCallback(run, p, new_state) ==
    LET logs1 == Append(run.system_logs, "State updated via callback")
        logs2 == IF "status_message" \in p.options THEN Append(logs1, "Status") ELSE logs1
        logs3 == IF "failure_reason" \in p.options
                 THEN Append(logs2, "Failure reason") ELSE logs2
        terminal == new_state \in TERMINAL_STATES
        out1 == IF terminal /\ "log_urls" \in p.options
                THEN OutputsOrEmpty(run.outputs) \cup { "log_urls" } ELSE run.outputs
        out2 == IF new_state = "COMPLETE" /\ "output_mapping" \in p.options
                THEN OutputsOrEmpty(out1) \cup { "output_mapping" } ELSE out1
    IN  [ run EXCEPT
            !.state = new_state,
            !.last_event_id = IF HasLastEventId THEN p.event_id ELSE @,
            !.system_logs = logs3,
            !.end_time = IF terminal /\ @ = NULL THEN NOW ELSE @,
            !.outputs = out2,
            !.exit_code = IF terminal THEN (IF new_state = "COMPLETE" THEN 0 ELSE 1) ELSE @ ]

\* Columns an accepted callback marks with flag_modified.
CallbackFlagged(p, new_state) ==
    { "system_logs" }
    \cup (IF new_state \in TERMINAL_STATES
             /\ ("log_urls" \in p.options
                 \/ (new_state = "COMPLETE" /\ "output_mapping" \in p.options))
          THEN { "outputs" } ELSE { })

\* Mutant: a callback for a run in a terminal state is applied all the same.
HandleOmicsStateChange_NoAbsorption(run, p) ==
    IF p.status \notin DOMAIN OMICS_STATUS_MAP
    THEN [ run |-> run, commit |-> FALSE, flagged |-> { },
           resp |-> Response(400, run.state, run.state, FALSE) ]
    ELSE LET previous_state == run.state
             new_state == OMICS_STATUS_MAP[p.status]
         IN  IF ~ IsValidTransition(previous_state, new_state)
                /\ previous_state \notin TERMINAL_STATES
             THEN [ run |-> run, commit |-> FALSE, flagged |-> { },
                    resp |-> Response(400, previous_state, previous_state, FALSE) ]
             ELSE [ run |-> ApplyCallback(run, p, new_state), commit |-> TRUE,
                    flagged |-> CallbackFlagged(p, new_state),
                    resp |-> Response(200, previous_state, new_state, FALSE) ]

\* Mutant: a rejected callback still leaves its line in system_logs.
HandleOmicsStateChange_LogsRejected(run, p) ==
    IF p.status \notin DOMAIN OMICS_STATUS_MAP
    THEN [ run |-> run, commit |-> FALSE, flagged |-> { },
           resp |-> Response(400, run.state, run.state, FALSE) ]
    ELSE LET previous_state == run.state
             new_state == OMICS_STATUS_MAP[p.status]
         IN  IF ~ IsValidTransition(previous_state, new_state)
             THEN IF previous_state \in TERMINAL_STATES
                  THEN [ run |-> run, commit |-> FALSE, flagged |-> { },
                         resp |-> Response(200, previous_state, previous_state, FALSE) ]
                  ELSE [ run |-> [ run EXCEPT !.system_logs =
                                     Append(@, "State updated via callback") ],
                         commit |-> TRUE, flagged |-> { "system_logs" },
                         resp |-> Response(400, previous_state, previous_state, FALSE) ]
             ELSE [ run |-> ApplyCallback(run, p, new_state), commit |-> TRUE,
                    flagged |-> CallbackFlagged(p, new_state),
                    resp |-> Response(200, previous_state, new_state, FALSE) ]

\* Mutant: a callback mapped to the state the run is in is answered with
\* success and changes nothing.
HandleOmicsStateChange_SameStateAccepted(run, p) ==
    IF p.status \notin DOMAIN OMICS_STATUS_MAP
    THEN [ run |-> run, commit |-> FALSE, flagged |-> { },
           resp |-> Response(400, run.state, run.state, FALSE) ]
    ELSE LET previous_state == run.state
             new_state == OMICS_STATUS_MAP[p.status]
         IN  IF ~ IsValidTransition(previous_state, new_state)
             THEN IF previous_state \in TERMINAL_STATES \/ previous_state = new_state
                  THEN [ run |-> run, commit |-> FALSE, flagged |-> { },
                         resp |-> Response(200, previous_state, previous_state, FALSE) ]
                  ELSE [ run |-> run, commit |-> FALSE, flagged |-> { },
                         resp |-> Response(400, previous_state, previous_state, FALSE) ]
             ELSE [ run |-> ApplyCallback(run, p, new_state), commit |-> TRUE,
                    flagged |-> CallbackFlagged(p, new_state),
                    resp |-> Response(200, previous_state, new_state, FALSE) ]

\* CallbackService.handle_omics_state_change on a loaded run: the run as the
\* handler leaves it in its session, whether it commits, and the response
\* (code 200 with a CallbackResponse, or the HTTPException's status code).
HandleOmicsStateChange(run, p) ==
    IF HasLastEventId /\ run.last_event_id = p.event_id
    THEN [ run |-> run, commit |-> FALSE, flagged |-> { },
           resp |-> Response(200, run.state, run.state, TRUE) ]
    ELSE IF p.status \notin DOMAIN OMICS_STATUS_MAP
    THEN [ run |-> run, commit |-> FALSE, flagged |-> { },
           resp |-> Response(400, run.state, run.state, FALSE) ]
    ELSE LET previous_state == run.state
             new_state == OMICS_STATUS_MAP[p.status]
         IN  IF ~ IsValidTransition(previous_state, new_state)
             THEN IF previous_state \in TERMINAL_STATES
                  THEN [ run |-> run, commit |-> FALSE, flagged |-> { },
                         resp |-> Response(200, previous_state, previous_state, FALSE) ]
                  ELSE [ run |-> run, commit |-> FALSE, flagged |-> { },
                         resp |-> Response(400, previous_state, previous_state, FALSE) ]
             ELSE [ run |-> ApplyCallback(run, p, new_state), commit |-> TRUE,
                    flagged |-> CallbackFlagged(p, new_state),
                    resp |-> Response(200, previous_state, new_state, FALSE) ]

\* -------------------------------------------------------- request handlers

\* Number of requests the API process handles at the same time.
NumHandlers == 1

\* Number of callback and cancel requests the API process receives in all.
MaxRequests == 1

\* Number of runs that callback and cancel requests name.
NumTargets == 1

\* The wes_run_id / run_id of a request: a stored run, or an unknown id.
RequestIds == (1 .. NumTargets) \cup { UnknownRunId }

Handlers == 1 .. NumHandlers

\* A handler: idle, holding the run its session loaded ("callback", "cancel"),
\* or holding the response it has returned ("callback_done", "cancel_done")
\* until it takes the next request.
IdleHandler ==
    [ kind |-> "idle", run |-> UnknownRunId, loaded |-> NewRun, code |-> NULL_INT,
      mapped |-> NULL, previous_state |-> NULL, new_state |-> NULL,
      already_processed |-> FALSE, mutated |-> FALSE ]

\* Mutant: a callback for an unknown run id is answered with success.
CallbackReceive_UnknownAccepted(h, id) ==
    /\ api[h].kind \in { "idle", "callback_done", "cancel_done" }
    /\ requests < MaxRequests
    /\ requests' = requests + 1
    /\ api' = [ api EXCEPT ![h] =
                  IF id \in RunIds
                  THEN [ IdleHandler EXCEPT !.kind = "callback", !.run = id,
                                            !.loaded = db[id] ]
                  ELSE [ IdleHandler EXCEPT !.kind = "callback_done", !.run = id,
                                            !.code = 200 ] ]
    /\ UNCHANGED << db, active_runs, checked_existing_runs, mon, task, restarts, vcall, hist,
                    wf, dmn, st, tl >>

\* handle_omics_state_change, lines 70-81: the SELECT by payload.wes_run_id.
\* An unknown id raises 404; otherwise the run is loaded into the session.
CallbackLoad(h, id) ==
    /\ api[h].kind \in { "idle", "callback_done", "cancel_done" }
    /\ api' = [ api EXCEPT ![h] =
                  IF id \in RunIds
                  THEN [ IdleHandler EXCEPT !.kind = "callback", !.run = id,
                                            !.loaded = db[id] ]
                  ELSE [ IdleHandler EXCEPT !.kind = "callback_done", !.run = id,
                                            !.code = 404 ] ]
    /\ UNCHANGED << db, active_runs, checked_existing_runs, mon, task, restarts, vcall, hist, wf,
                    dmn, st, tl >>

\* One of the requests of the service specification reaches the handler.
CallbackReceive(h, id) ==
    /\ requests < MaxRequests
    /\ requests' = requests + 1
    /\ CallbackLoad(h, id)

\* handle_omics_state_change, lines 83-200, on the run loaded by CallbackReceive.
CallbackFinish(h, p) ==
    /\ api[h].kind = "callback"
    /\ LET id == api[h].run
           res == HandleOmicsStateChange(api[h].loaded, p)
           row == IF res.commit
                  THEN Flush(db[id], api[h].loaded, res.run, res.flagged)
                  ELSE db[id]
       IN  /\ db' = [ db EXCEPT ![id] = row ]
           /\ api' = [ api EXCEPT ![h] =
                         [ kind |-> "callback_done", run |-> id, loaded |-> NewRun,
                           code |-> res.resp.code, mapped |-> MappedState(p),
                           previous_state |-> res.resp.previous_state,
                           new_state |-> res.resp.new_state,
                           already_processed |-> res.resp.already_processed,
                           mutated |-> (row # db[id]) ] ]
    /\ UNCHANGED << requests, active_runs, checked_existing_runs, mon, task, restarts, vcall, hist,
                    wf, dmn, st, tl >>

\* Mutant: a COMPLETE run is not refused.
CancelRefusedStates_NoComplete == { "EXECUTOR_ERROR", "SYSTEM_ERROR", "CANCELED" }

\* States in which RunService.cancel_run refuses to cancel.
CancelRefusedStates == { "COMPLETE", "EXECUTOR_ERROR", "SYSTEM_ERROR", "CANCELED" }

\* RunService.cancel_run, line 287: _get_run loads the run (404 when unknown).
CancelReceive(h, id) ==
    /\ api[h].kind \in { "idle", "callback_done", "cancel_done" }
    /\ requests < MaxRequests
    /\ requests' = requests + 1
    /\ api' = [ api EXCEPT ![h] =
                  IF id \in RunIds
                  THEN [ IdleHandler EXCEPT !.kind = "cancel", !.run = id, !.loaded = db[id] ]
                  ELSE [ IdleHandler EXCEPT !.kind = "cancel_done", !.run = id,
                                            !.code = 404 ] ]
    /\ UNCHANGED << db, active_runs, checked_existing_runs, mon, task, restarts, vcall, hist, wf,
                    dmn, st, tl >>

\* Mutant: the cancel request closes the run itself.
CancelFinish_SetsCanceled(h) ==
    /\ api[h].kind = "cancel"
    /\ LET id == api[h].run
           run == api[h].loaded
           refused == run.state \in CancelRefusedStates
           row == IF refused
                  THEN db[id]
                  ELSE Flush(db[id], run, [ run EXCEPT !.state = "CANCELED", !.end_time = NOW ],
                             { "end_time" })
       IN  /\ db' = [ db EXCEPT ![id] = row ]
           /\ api' = [ api EXCEPT ![h] =
                         [ IdleHandler EXCEPT !.kind = "cancel_done", !.run = id,
                                              !.code = IF refused THEN 400 ELSE 200,
                                              !.previous_state = run.state,
                                              !.mutated = (row # db[id]) ] ]
    /\ UNCHANGED << requests, active_runs, checked_existing_runs, mon, task, restarts, vcall,
                    hist, wf, dmn, st, tl >>

\* RunService.cancel_run, lines 289-305.
CancelFinish(h) ==
    /\ api[h].kind = "cancel"
    /\ LET id == api[h].run
           run == api[h].loaded
           refused == run.state \in CancelRefusedStates
           row == IF refused
                  THEN db[id]
                  ELSE Flush(db[id], run, [ run EXCEPT !.state = "CANCELING" ], { })
       IN  /\ db' = [ db EXCEPT ![id] = row ]
           /\ api' = [ api EXCEPT ![h] =
                         [ IdleHandler EXCEPT !.kind = "cancel_done", !.run = id,
                                              !.code = IF refused THEN 400 ELSE 200,
                                              !.previous_state = run.state,
                                              !.mutated = (row # db[id]) ] ]
    /\ UNCHANGED << requests, active_runs, checked_existing_runs, mon, task, restarts, vcall, hist,
                    wf, dmn, st, tl >>

\* ------------------------------------------------------- WorkflowMonitor

NoTask == [ pc |-> "none", local |-> NewRun ]

Sleeping == [ pc |-> "sleep", pending |-> { }, with_omics_run_id |-> { } ]

Min(a, b) == IF a < b THEN a ELSE b

Max(a, b) == IF a > b THEN a ELSE b

RunsIn(states) == { r \in RunIds : db[r].state \in states }

\* Mutant: the limit ignores the runs already active.
DispatchLimit_Unbounded == NumRuns

\* _poll_and_execute, line 69: the LIMIT of the QUEUED query.
DispatchLimit == daemon_max_concurrent_runs - Cardinality(active_runs)

\* _poll_and_execute, lines 64-79: the QUEUED query, limited to the free slots
\* (any rows of that number: the query has no ORDER BY), and one background
\* task per returned run.  A negative LIMIT is rejected by some databases (the
\* exception leaves start(), which logs and re-raises: the daemon stops) and
\* means no limit on others.
PollQueued ==
    /\ mon.pc = "sleep"
    /\ \/ /\ DispatchLimit >= 0
          /\ \E S \in SUBSET RunsIn({ "QUEUED" }) :
               /\ Cardinality(S) = Min(DispatchLimit, Cardinality(RunsIn({ "QUEUED" })))
               /\ task' = [ r \in RunIds |->
                              IF r \in S \ active_runs
                              THEN [ NoTask EXCEPT !.pc = "execute" ] ELSE task[r] ]
               /\ active_runs' = active_runs \cup S
               /\ mon' = [ Sleeping EXCEPT !.pc = "dispatched" ]
       \/ /\ DispatchLimit < 0
          /\ \/ /\ task' = [ r \in RunIds |->
                               IF r \in RunsIn({ "QUEUED" }) \ active_runs
                               THEN [ NoTask EXCEPT !.pc = "execute" ] ELSE task[r] ]
                /\ active_runs' = active_runs \cup RunsIn({ "QUEUED" })
                /\ mon' = [ Sleeping EXCEPT !.pc = "dispatched" ]
             \/ /\ mon' = [ Sleeping EXCEPT !.pc = "stopped" ]
                /\ UNCHANGED << task, active_runs >>
    /\ UNCHANGED << db, api, requests, checked_existing_runs, restarts, vcall, hist, wf, dmn, st, tl >>

\* _poll_and_execute, lines 81-86: the CANCELING query.
QueryCanceling ==
    /\ mon.pc = "dispatched"
    /\ mon' = [ Sleeping EXCEPT !.pc = "cancel", !.pending = RunsIn({ "CANCELING" }) ]
    /\ UNCHANGED << db, api, requests, active_runs, checked_existing_runs, task,
                    restarts, vcall, hist, wf, dmn, st, tl >>

\* _cancel_run for one run of canceling_runs: state CANCELED and end_time are
\* assigned and committed (the append to system_logs is a mutation in place
\* the session does not flush); the run leaves active_runs.
CancelRun(r) ==
    /\ mon.pc = "cancel"
    /\ r \in mon.pending
    /\ db' = [ db EXCEPT ![r] = [ @ EXCEPT !.state = "CANCELED", !.end_time = NOW ] ]
    /\ active_runs' = active_runs \ { r }
    /\ mon' = [ mon EXCEPT !.pending = @ \ { r } ]
    /\ UNCHANGED << api, requests, checked_existing_runs, task, restarts, vcall, hist, wf, dmn, st, tl >>

\* _poll_and_execute, lines 91-95, and _check_existing_runs, lines 170-177:
\* once per daemon process, the query for RUNNING or INITIALIZING runs.  The
\* session keeps the rows as the query returned them: which of them hold an
\* omics_run_id in outputs is decided on those.
CheckExistingRuns ==
    /\ mon.pc = "cancel"
    /\ mon.pending = { }
    /\ IF checked_existing_runs
       THEN mon' = Sleeping
       ELSE mon' = [ pc |-> "recover",
                     pending |-> RunsIn({ "RUNNING", "INITIALIZING" }),
                     with_omics_run_id |->
                         { r \in RunsIn({ "RUNNING", "INITIALIZING" }) :
                             "omics_run_id" \in OutputsOrEmpty(db[r].outputs) } ]
    /\ UNCHANGED << db, api, requests, active_runs, checked_existing_runs, task,
                    restarts, vcall, hist, wf, dmn, st, tl >>

\* _check_existing_runs, lines 182-204, for one run of existing_runs: skipped
\* when active (active_runs as it is now); handed to _monitor_existing_run
\* when the outputs the query returned hold an omics_run_id; marked CANCELED
\* otherwise.
RecoverRun(r) ==
    /\ mon.pc = "recover"
    /\ r \in mon.pending
    /\ mon' = [ mon EXCEPT !.pending = @ \ { r } ]
    /\ IF r \in active_runs
       THEN UNCHANGED << db, task, active_runs >>
       ELSE IF r \in mon.with_omics_run_id
       THEN /\ task' = [ task EXCEPT ![r] = [ NoTask EXCEPT !.pc = "monitor_existing" ] ]
            /\ active_runs' = active_runs \cup { r }
            /\ UNCHANGED db
       ELSE /\ db' = [ db EXCEPT ![r] = [ @ EXCEPT !.state = "CANCELED",
                                                   !.end_time = NOW ] ]
            /\ UNCHANGED << task, active_runs >>
    /\ UNCHANGED << api, requests, checked_existing_runs, restarts, vcall, hist, wf, dmn, st, tl >>

\* _poll_and_execute, line 95, and the sleep of start().
RecoverDone ==
    /\ mon.pc = "recover"
    /\ mon.pending = { }
    /\ checked_existing_runs' = TRUE
    /\ mon' = Sleeping
    /\ UNCHANGED << db, api, requests, active_runs, task, restarts, vcall, hist, wf, dmn, st, tl >>

\* The daemon process ends (at any point) and a new one is started: its tasks
\* and its in-memory state are gone, the table stays.
DaemonRestart ==
    /\ restarts < MaxRestarts
    /\ restarts' = restarts + 1
    /\ mon' = Sleeping
    /\ task' = [ r \in RunIds |-> NoTask ]
    /\ active_runs' = { }
    /\ checked_existing_runs' = FALSE
    /\ UNCHANGED << db, api, requests, vcall, hist, wf, dmn, st, tl >>

\* --------------------------------------------------------- OmicsExecutor

\* What _get_run_outputs can return: {"error": ...} when the backend call
\* fails, else the run id and output location, with the log URLs when the
\* response has a logLocation and the output mapping when the manifest is read.
RunOutputsResults ==
    { { "error" },
      { "omics_run_id", "output_location" },
      { "omics_run_id", "output_location", "logs", "output_mapping" } }

\* _get_run_outputs is called for a run reported COMPLETED only.
OutputsResultsFor(outcome) ==
    IF outcome = "COMPLETED" THEN RunOutputsResults ELSE { NULL_OUTPUTS }

\* What one get_run poll of _monitor_omics_run can yield.
PollOutcomes == OmicsStatuses \cup { "BOGUS", "exception" }

\* _monitor_omics_run, lines 433-472: the state a poll returns, or "poll again".
MonitorResult(outcome) ==
    CASE outcome = "COMPLETED" -> "COMPLETE"
      [] outcome = "FAILED" -> "EXECUTOR_ERROR"
      [] outcome \in { "CANCELLED", "CANCELLED_RUNNING", "CANCELLED_STARTING" } -> "CANCELED"
      [] outcome \in { "STARTING", "RUNNING", "PENDING", "QUEUED" } -> "poll again"
      [] outcome \in { "STOPPING", "TERMINATING" } -> "poll again"
      [] OTHER -> "SYSTEM_ERROR"

\* _monitor_omics_run, lines 443-477: the diagnostic entry a poll that ends the
\* monitoring appends in place to the session's system_logs list (no
\* flag_modified follows; the progress entries "Omics status update: ..." are
\* appended and left unflushed in the same way and are not kept here).
UnknownStatusLog == "Unknown Omics status"

PollErrorLog == "Error monitoring Omics run"

PollLog(outcome) ==
    CASE outcome = "FAILED" -> << "Omics workflow failed" >>
      [] outcome = "exception" -> << PollErrorLog >>
      [] outcome \in OmicsStatuses -> << >>
      [] OTHER -> << UnknownStatusLog >>

\* The task commits `local`.  Its session holds the run as it was loaded or
\* last committed by the task itself (task[r].local): the columns that differ
\* from that, and the flagged ones, are written.
TaskCommit(r, pc, local, flagged) ==
    /\ db' = [ db EXCEPT ![r] = Flush(db[r], task[r].local, local, flagged) ]
    /\ task' = [ task EXCEPT ![r] = [ pc |-> pc, local |-> local ] ]

\* The task returns: the finally clause of _execute_run (or of
\* _monitor_existing_run) takes the run out of active_runs.
TaskCommitAndEnd(r, local, flagged) ==
    /\ db' = [ db EXCEPT ![r] = Flush(db[r], task[r].local, local, flagged) ]
    /\ task' = [ task EXCEPT ![r] = NoTask ]
    /\ active_runs' = active_runs \ { r }

\* _execute_run, lines 105-110: the task's own session loads the run.
ExecuteLoad(r) ==
    /\ task[r].pc = "execute"
    /\ task' = [ task EXCEPT ![r] = [ pc |-> "loaded", local |-> db[r] ] ]
    /\ UNCHANGED << db, api, requests, active_runs, checked_existing_runs, mon,
                    restarts, vcall, hist, wf, dmn, st, tl >>

\* _execute_run, lines 118-120: state INITIALIZING is committed.  (execute
\* assigns INITIALIZING again and commits at lines 49-52 and 76: nothing the
\* session flushes has changed by then.)
ExecuteInitializing(r) ==
    /\ task[r].pc = "loaded"
    /\ TaskCommit(r, "initializing", [ task[r].local EXCEPT !.state = "INITIALIZING" ], { })
    /\ UNCHANGED << api, requests, active_runs, checked_existing_runs, mon, restarts, vcall, hist, wf, dmn, st, tl >>

\* Mutant: RUNNING is stored without start_time.
ExecuteRunning_NoStartTime(r) ==
    /\ task[r].pc = "initializing"
    /\ TaskCommit(r, "running", [ task[r].local EXCEPT !.state = "RUNNING" ], { })
    /\ UNCHANGED << api, requests, active_runs, checked_existing_runs, mon, restarts, vcall, hist, wf, dmn, st, tl >>

\* OmicsExecutor.execute, lines 78-82: state RUNNING and start_time.
ExecuteRunning(r) ==
    /\ task[r].pc = "initializing"
    /\ TaskCommit(r, "running",
                  [ task[r].local EXCEPT !.state = "RUNNING", !.start_time = NOW ],
                  { "start_time" })
    /\ UNCHANGED << api, requests, active_runs, checked_existing_runs, mon, restarts, vcall, hist, wf, dmn, st, tl >>

\* The entry of line 171, "Failed to start Omics workflow: ...".
StartFailedLog == "Failed to start Omics workflow"

\* Columns the commit of line 177 writes whatever their old value: end_time
\* (assigned the current time).
StartRunFailedFlagged == { "end_time" }

\* OmicsExecutor.execute, lines 86-178: start_run.  On success the run id and
\* output location go into outputs (assigned when outputs was empty, otherwise
\* a mutation in place that is not flushed); on failure the error text is
\* appended in place to the session's system_logs list (line 173, without
\* flag_modified), the run becomes SYSTEM_ERROR with end_time and exit_code 1,
\* the session commits and the task returns.
ExecuteStartRun(r, ok) ==
    /\ task[r].pc = "running"
    /\ LET run == task[r].local
       IN  IF ok
           THEN /\ TaskCommit(r, "monitoring",
                      [ run EXCEPT !.outputs = OutputsOrEmpty(@)
                                               \cup { "omics_run_id", "output_location" } ],
                      IF OutputsOrEmpty(run.outputs) = { } THEN { "outputs" } ELSE { })
                /\ UNCHANGED active_runs
           ELSE TaskCommitAndEnd(r,
                      [ run EXCEPT !.state = "SYSTEM_ERROR", !.end_time = NOW,
                                   !.exit_code = 1,
                                   !.system_logs = Append(@, StartFailedLog) ],
                      StartRunFailedFlagged)
    /\ UNCHANGED << api, requests, checked_existing_runs, mon, restarts, vcall, hist, wf, dmn, st, tl >>

\* OmicsExecutor.execute, lines 180-261, with one poll of _monitor_omics_run:
\* while the backend is in progress the task polls again; otherwise the final
\* state, end_time and exit_code are assigned and, for COMPLETE, outputs is
\* replaced by what _get_run_outputs returns now, and committed.
ExecutePoll(r, outcome, outputs) ==
    /\ task[r].pc = "monitoring"
    /\ LET run == task[r].local
           final_state == MonitorResult(outcome)
       IN  CASE final_state = "poll again" ->
                  UNCHANGED << db, task, active_runs >>
             [] final_state = "COMPLETE" ->
                  /\ TaskCommit(r, IF "logs" \in outputs THEN "log_urls" ELSE "double_check",
                        [ run EXCEPT !.state = "COMPLETE", !.end_time = NOW,
                                     !.exit_code = 0, !.outputs = outputs ],
                        { "end_time", "outputs" })
                  /\ UNCHANGED active_runs
             [] OTHER ->
                  /\ TaskCommit(r, "double_check",
                        [ run EXCEPT !.state = final_state, !.end_time = NOW,
                                     !.exit_code = 1,
                                     !.system_logs = @ \o PollLog(outcome) ],
                        { "end_time" })
                  /\ UNCHANGED active_runs
    /\ UNCHANGED << api, requests, checked_existing_runs, mon, restarts, vcall, hist, wf, dmn, st, tl >>

\* OmicsExecutor.execute, lines 198-230: the log URLs move from outputs to
\* stdout_url.
ExecuteLogUrls(r) ==
    /\ task[r].pc = "log_urls"
    /\ TaskCommit(r, "double_check",
                  [ task[r].local EXCEPT !.outputs = @ \ { "logs" } ], { "outputs" })
    /\ UNCHANGED << api, requests, active_runs, checked_existing_runs, mon, restarts, vcall, hist, wf, dmn, st, tl >>

\* OmicsExecutor.execute, lines 263-281: when the task's run is in an error
\* state, get_run is asked once more and COMPLETED overrides the error state.
\* Then execute returns.
ExecuteDoubleCheck(r, aws_completed) ==
    /\ task[r].pc = "double_check"
    /\ LET run == task[r].local
       IN  IF run.state \in { "EXECUTOR_ERROR", "SYSTEM_ERROR" } /\ aws_completed
           THEN TaskCommitAndEnd(r, [ run EXCEPT !.state = "COMPLETE", !.exit_code = 0 ], { })
           ELSE TaskCommitAndEnd(r, run, { })
    /\ UNCHANGED << api, requests, checked_existing_runs, mon, restarts, vcall, hist, wf, dmn, st, tl >>

\* ------------------------------------- WorkflowMonitor._monitor_existing_run

\* _monitor_existing_run, lines 220-225: the task's own session loads the run.
MonitorExistingLoad(r) ==
    /\ task[r].pc = "monitor_existing"
    /\ task' = [ task EXCEPT ![r] = [ pc |-> "existing_loaded", local |-> db[r] ] ]
    /\ UNCHANGED << db, api, requests, active_runs, checked_existing_runs, mon,
                    restarts, vcall, hist, wf, dmn, st, tl >>

\* _monitor_existing_run, lines 235-250: get_run for the recorded Omics run id;
\* when it fails the run is marked CANCELED with exit_code 1.
MonitorExistingCheck(r, found) ==
    /\ task[r].pc = "existing_loaded"
    /\ IF found
       THEN /\ task' = [ task EXCEPT ![r].pc = "monitoring_existing" ]
            /\ UNCHANGED << db, active_runs >>
       ELSE TaskCommitAndEnd(r,
                [ task[r].local EXCEPT !.state = "CANCELED", !.end_time = NOW,
                                       !.exit_code = 1 ],
                { "end_time" })
    /\ UNCHANGED << api, requests, checked_existing_runs, mon, restarts, vcall, hist, wf, dmn, st, tl >>

\* _monitor_existing_run, lines 338-361: the except clause, with its own
\* session: the run is loaded again and stored as SYSTEM_ERROR.
MonitorExistingError(r) ==
    /\ db' = [ db EXCEPT ![r] = [ @ EXCEPT !.state = "SYSTEM_ERROR", !.end_time = NOW,
                                           !.exit_code = 1 ] ]
    /\ task' = [ task EXCEPT ![r] = NoTask ]
    /\ active_runs' = active_runs \ { r }

\* _monitor_existing_run, lines 252-333, with one poll of _monitor_omics_run.
\* For COMPLETE, line 263 assigns to outputs the coroutine that the un-awaited
\* _get_run_outputs returns; the commit of line 265 cannot serialise it, the
\* session stays in its failed transaction, the commit of line 332 raises, and
\* the except clause stores SYSTEM_ERROR.  For the other final states the
\* state, end_time and exit_code 1 are committed.
MonitorExistingPoll(r, outcome) ==
    /\ task[r].pc = "monitoring_existing"
    /\ LET final_state == MonitorResult(outcome)
       IN  CASE final_state = "poll again" ->
                  UNCHANGED << db, task, active_runs >>
             [] final_state = "COMPLETE" ->
                  MonitorExistingError(r)
             [] OTHER ->
                  TaskCommitAndEnd(r,
                      [ task[r].local EXCEPT !.state = final_state, !.end_time = NOW,
                                             !.exit_code = 1 ],
                      { "end_time" })
    /\ UNCHANGED << api, requests, checked_existing_runs, mon, restarts, vcall, hist, wf, dmn, st, tl >>

\* ------------------------------------------------------------ the service

ServiceInit ==
    /\ db = [ r \in RunIds |-> NewRun ]
    /\ api = [ h \in Handlers |-> IdleHandler ]
    /\ requests = 0
    /\ active_runs = { }
    /\ checked_existing_runs = FALSE
    /\ mon = Sleeping
    /\ task = [ r \in RunIds |-> NoTask ]
    /\ restarts = 0

ValidatorIdle == [ from_state |-> "UNKNOWN", to_state |-> "UNKNOWN", result |-> "not called" ]

\* WorkflowDaemon.run between two rounds: nothing selected.
DaemonIdle == [ pc |-> "sleep", pending |-> { } ]

\* The row WorkflowRuns.post stores: state QUEUED, no end_time, the tags of the
\* request (of which the model keeps provider_type and provider_id).
FlaskRun(provider_type) ==
    [ state |-> "QUEUED", end_time |-> NULL, provider_type |-> provider_type,
      provider_id |-> FALSE ]

\* tags['provider_type'] of a request: absent, a registered type, or any other
\* string.
ProviderTypes == { NULL, "healthomics", "unsupported" }

\* No callback delivered yet.
NoDelivery ==
    [ run |-> UnknownRunId, payload |-> NULL, before |-> NewRun, after |-> NewRun,
      code |-> NULL_INT, previous_state |-> NULL, new_state |-> NULL,
      already_processed |-> FALSE ]

\* ------------------------------------------------------------- task logs

\* Bounds of SpecTaskLogs: tasks of the backend run, and polls per application.
NumTasks == 2
MaxPolls == 3

TaskIds == 1 .. NumTasks

\* The run whose tasks are polled.
PolledRun == 1

\* task_logs: ids of the TaskLog rows of the run in the service's table;
\* polls, tasks, prev_tasks, prev_task_logs: the polls of the executor so far,
\* the task lists of the last two and the rows after the one before the
\* last; raised: the last poll ended with an exception.  wf_...: the same for
\* the Flask application, whose rows are (id, name) with ids of uuid4().
TaskLogsIdle ==
    [ task_logs |-> { }, polls |-> 0, tasks |-> { }, prev_tasks |-> { },
      prev_task_logs |-> { }, raised |-> FALSE,
      wf_task_logs |-> { }, wf_polls |-> 0, wf_tasks |-> { }, wf_prev_tasks |-> { },
      wf_prev_task_logs |-> { } ]

\* The exit_code left by a poll that raised: execute's handlers assign 1 and
\* commit on the session of the failed flush; _execute_run's handler then
\* stores SYSTEM_ERROR and end_time from a new session (workflow_monitor.py
\* 125-137).  Whether one of the earlier commits gets through depends on the
\* session's state after the failed flush.
RaisedExitCodes == { NULL_INT, 1 }

\* _monitor_omics_run, lines 417-431 and 467-479, for one poll that reports
\* an in-progress status and the task list `tasks`: _update_task_logs adds a
\* new TaskLog with id "omics-<task id>" for every task and commits.  A row of
\* that id stored by an earlier poll makes the flush fail (the primary key is
\* taken); nothing is inserted, the exception ends the monitoring and the run
\* is stored SYSTEM_ERROR.
update_task_logs_service(tasks, exit_code) ==
    /\ db[PolledRun].state = "RUNNING"
    /\ tl.polls < MaxPolls
    /\ LET conflict == tasks \cap tl.task_logs # { }
       IN  /\ tl' = [ tl EXCEPT !.polls = @ + 1,
                        !.prev_tasks = tl.tasks, !.tasks = tasks,
                        !.prev_task_logs = tl.task_logs,
                        !.task_logs = IF conflict THEN @ ELSE @ \cup tasks,
                        !.raised = conflict ]
           /\ db' = IF conflict
                    THEN [ db EXCEPT ![PolledRun] =
                             [ @ EXCEPT !.state = "SYSTEM_ERROR", !.end_time = NOW,
                                        !.exit_code = exit_code ] ]
                    ELSE db
    /\ UNCHANGED << api, requests, active_runs, checked_existing_runs, mon, task,
                    restarts, vcall, hist, wf, dmn, st >>

\* WorkflowDaemon.update_task_logs, lines 344-362, in a status poll that
\* reports RUNNING: the rows of the run are deleted and one row per polled
\* task is added; the provider's task logs carry no id, so each row gets a
\* new uuid4 (here: the number of the poll and the task).
update_task_logs(tasks) ==
    /\ wf[PolledRun].state = "RUNNING"
    /\ tl.wf_polls < MaxPolls
    /\ tl' = [ tl EXCEPT !.wf_polls = @ + 1,
                 !.wf_prev_tasks = tl.wf_tasks, !.wf_tasks = tasks,
                 !.wf_prev_task_logs = tl.wf_task_logs,
                 !.wf_task_logs = { [ id |-> << tl.wf_polls + 1, t >>, name |-> t ] : t \in tasks } ]
    /\ UNCHANGED << db, api, requests, active_runs, checked_existing_runs, mon, task,
                    restarts, vcall, hist, wf, dmn, st >>

\* ------------------------------------------------ RunService: create, list

\* Bounds of SpecStore: stored runs, and the seconds their created_at spans.
MaxStored == 3
MaxCreateRequests == 4

\* Settings.get_workflow_type_versions().keys()
supported_types == { "CWL", "WDL" }

\* The workflow_type form values tried, and str.upper() on them.
WorkflowTypes == { "CWL", "cwl", "WDL", "nfl" }

Upper(s) ==
    CASE s = "cwl" -> "CWL"
      [] s = "nfl" -> "NFL"
      [] OTHER -> s

\* The page_size query values tried (NULL_INT: the parameter is absent) and
\* the cap and the default of list_runs.
PageSizes == { NULL_INT, 1, 2, 101 }
MaxPageSize == 100
DefaultPageSize == 10

\* str(n) and int(s) for the page token, a decimal string held as the
\* sequence of its characters; the empty string is << >>.
Digits == << "0", "1", "2", "3", "4", "5", "6", "7", "8", "9" >>

RECURSIVE Str(_)
Str(n) == IF n < 10 THEN << Digits[n + 1] >>
          ELSE Append(Str(n \div 10), Digits[(n % 10) + 1])

DigitValue(c) == CHOOSE d \in 0..9 : Digits[d + 1] = c

RECURSIVE ParseInt(_)
ParseInt(s) == IF Len(s) = 1 THEN DigitValue(s[1])
               ELSE 10 * ParseInt(SubSeq(s, 1, Len(s) - 1)) + DigitValue(s[Len(s)])

\* The WorkflowRun row that create_run builds: state QUEUED, the upper-cased
\* type, the column default of created_at and the nullable columns unset.
\* created_at is a DateTime column, which the configured MySQL database keeps
\* to the second.
StoredRun(workflow_type, created_at) ==
    [ state |-> "QUEUED", workflow_type |-> Upper(workflow_type),
      start_time |-> NULL, end_time |-> NULL, exit_code |-> NULL_INT,
      created_at |-> created_at ]

NoRequest == [ workflow_type |-> NULL, outcome |-> NULL ]

\* rows: the committed workflow_runs rows in the order of their creation;
\* creates, last: the create requests so far and the last one's input and
\* outcome; pc .. seen: a client that lists the runs page by page, the number
\* of rows when it began, its last response and the runs of all its pages.
StoreIdle ==
    [ rows |-> << >>, creates |-> 0, last |-> NoRequest,
      pc |-> "idle", listed |-> 0, page_size |-> NULL_INT, offset |-> 0, page |-> << >>,
      next_page_token |-> << >>, seen |-> << >> ]

LastCreatedAt == IF st.rows = << >> THEN 0 ELSE st.rows[Len(st.rows)].created_at

\* Mutant: the type is not checked.
create_run_NoTypeCheck(workflow_type, upload_ok, later) ==
    /\ st.pc # "paging"
    /\ st.creates < MaxCreateRequests
    /\ Len(st.rows) < MaxStored
    /\ LET created_at == IF later THEN LastCreatedAt + 1 ELSE LastCreatedAt
       IN  st' = IF ~upload_ok
                 THEN [ st EXCEPT !.creates = @ + 1,
                          !.last = [ workflow_type |-> workflow_type, outcome |-> "upload failed" ] ]
                 ELSE [ st EXCEPT !.creates = @ + 1,
                          !.rows = Append(@, StoredRun(workflow_type, created_at)),
                          !.last = [ workflow_type |-> workflow_type, outcome |-> "created" ] ]
    /\ UNCHANGED << db, api, requests, active_runs, checked_existing_runs, mon, task,
                    restarts, vcall, hist, wf, dmn, tl >>

\* create_run: the type check raises ValueError before the row is added; a
\* failing attachment upload raises before the commit, and the session is
\* rolled back.  later: utcnow() falls in a later second than that of the
\* run stored before.
create_run(workflow_type, upload_ok, later) ==
    /\ st.pc # "paging"
    /\ st.creates < MaxCreateRequests
    /\ Len(st.rows) < MaxStored
    /\ LET created_at == IF later THEN LastCreatedAt + 1 ELSE LastCreatedAt
       IN  st' = IF Upper(workflow_type) \notin supported_types
                 THEN [ st EXCEPT !.creates = @ + 1,
                          !.last = [ workflow_type |-> workflow_type, outcome |-> "ValueError" ] ]
                 ELSE IF ~upload_ok
                 THEN [ st EXCEPT !.creates = @ + 1,
                          !.last = [ workflow_type |-> workflow_type, outcome |-> "upload failed" ] ]
                 ELSE [ st EXCEPT !.creates = @ + 1,
                          !.rows = Append(@, StoredRun(workflow_type, created_at)),
                          !.last = [ workflow_type |-> workflow_type, outcome |-> "created" ] ]
    /\ UNCHANGED << db, api, requests, active_runs, checked_existing_runs, mon, task,
                    restarts, vcall, hist, wf, dmn, tl >>

\* The results ORDER BY created_at DESC can give: every order of the rows in
\* which created_at does not increase.  Rows of the same created_at come in
\* an order the database chooses anew for each query.
Orders ==
    { o \in [ 1..Len(st.rows) -> 1..Len(st.rows) ] :
        /\ \A i, j \in 1..Len(st.rows) : i # j => o[i] # o[j]
        /\ \A i \in 1..(Len(st.rows) - 1) :
              st.rows[o[i]].created_at >= st.rows[o[i + 1]].created_at }

\* list_runs, lines 152-193, for one request: the result of
\* OFFSET offset LIMIT page_size + 1 over the order o, cut to page_size.
ListResponse(page_size_arg, page_token, o) ==
    LET page_size == Min(IF page_size_arg = NULL_INT THEN DefaultPageSize ELSE page_size_arg,
                         MaxPageSize)
        offset    == IF page_token # << >> THEN ParseInt(page_token) ELSE 0
        runs      == [ i \in 1..Max(0, Min(page_size + 1, Len(st.rows) - offset)) |-> o[offset + i] ]
        has_more  == Len(runs) > page_size
    IN  [ page_size |-> page_size, offset |-> offset,
          page |-> IF has_more THEN SubSeq(runs, 1, page_size) ELSE runs,
          next_page_token |-> IF has_more THEN Str(offset + page_size) ELSE << >> ]

\* The client's first request, without a token.
ListFirst(page_size_arg) ==
    /\ st.pc # "paging"
    /\ \E o \in Orders :
          LET resp == ListResponse(page_size_arg, << >>, o)
          IN  st' = [ st EXCEPT !.pc = IF resp.next_page_token = << >> THEN "done" ELSE "paging",
                        !.listed = Len(st.rows),
                        !.page_size = page_size_arg, !.offset = resp.offset,
                        !.page = resp.page, !.next_page_token = resp.next_page_token,
                        !.seen = resp.page ]
    /\ UNCHANGED << db, api, requests, active_runs, checked_existing_runs, mon, task,
                    restarts, vcall, hist, wf, dmn, tl >>

\* The client's next request, with the token of the last response and the
\* same page_size.
ListNext ==
    /\ st.pc = "paging"
    /\ \E o \in Orders :
          LET resp == ListResponse(st.page_size, st.next_page_token, o)
          IN  st' = [ st EXCEPT !.pc = IF resp.next_page_token = << >> THEN "done" ELSE "paging",
                        !.offset = resp.offset,
                        !.page = resp.page, !.next_page_token = resp.next_page_token,
                        !.seen = @ \o resp.page ]
    /\ UNCHANGED << db, api, requests, active_runs, checked_existing_runs, mon, task,
                    restarts, vcall, hist, wf, dmn, tl >>

NextStore ==
    \/ \E workflow_type \in WorkflowTypes, upload_ok, later \in BOOLEAN :
          create_run(workflow_type, upload_ok, later)
    \/ \E page_size_arg \in PageSizes : ListFirst(page_size_arg)
    \/ ListNext

NoHistory == [ prev |-> NoDelivery, last |-> NoDelivery ]

Init ==
    /\ ServiceInit
    /\ vcall = ValidatorIdle
    /\ hist = NoHistory
    /\ wf = [ r \in RunIds |-> FlaskRun(NULL) ]
    /\ dmn = DaemonIdle
    /\ st = StoreIdle
    /\ tl = TaskLogsIdle

Next ==
    \/ \E h \in Handlers, id \in RequestIds : CallbackReceive(h, id)
    \/ \E h \in Handlers, p \in ServicePayloads : CallbackFinish(h, p)
    \/ \E h \in Handlers, id \in RequestIds : CancelReceive(h, id)
    \/ \E h \in Handlers : CancelFinish(h)
    \/ PollQueued
    \/ QueryCanceling
    \/ \E r \in RunIds : CancelRun(r)
    \/ CheckExistingRuns
    \/ \E r \in RunIds : RecoverRun(r)
    \/ RecoverDone
    \/ DaemonRestart
    \/ \E r \in RunIds : ExecuteLoad(r)
    \/ \E r \in RunIds : ExecuteInitializing(r)
    \/ \E r \in RunIds : ExecuteRunning(r)
    \/ \E r \in RunIds, ok \in BOOLEAN : ExecuteStartRun(r, ok)
    \/ \E r \in RunIds, outcome \in PollOutcomes : \E outputs \in OutputsResultsFor(outcome) :
         ExecutePoll(r, outcome, outputs)
    \/ \E r \in RunIds : ExecuteLogUrls(r)
    \/ \E r \in RunIds, aws_completed \in BOOLEAN : ExecuteDoubleCheck(r, aws_completed)
    \/ \E r \in RunIds : MonitorExistingLoad(r)
    \/ \E r \in RunIds, found \in BOOLEAN : MonitorExistingCheck(r, found)
    \/ \E r \in RunIds, outcome \in PollOutcomes : MonitorExistingPoll(r, outcome)

Spec == Init /\ [][Next]_vars

\* The run store alone: create requests and a client listing the runs.
SpecStore == Init /\ [][NextStore]_vars

\* ------------------------------------------------------ the service, fair

\* One iteration step of WorkflowMonitor.start: the loop runs while
\* self.running, which nothing but stop() clears.
MonitorStep ==
    \/ PollQueued
    \/ QueryCanceling
    \/ \E r \in RunIds : CancelRun(r)
    \/ CheckExistingRuns
    \/ \E r \in RunIds : RecoverRun(r)
    \/ RecoverDone

\* One step of the background task of run r: the event loop resumes every
\* task whose await has completed, and the poll of a task returns a final
\* status in the end.
TaskStep(r) ==
    \/ ExecuteLoad(r)
    \/ ExecuteInitializing(r)
    \/ ExecuteRunning(r)
    \/ \E ok \in BOOLEAN : ExecuteStartRun(r, ok)
    \/ \E outcome \in PollOutcomes : \E outputs \in OutputsResultsFor(outcome) :
         ExecutePoll(r, outcome, outputs)
    \/ ExecuteLogUrls(r)
    \/ \E aws_completed \in BOOLEAN : ExecuteDoubleCheck(r, aws_completed)
    \/ MonitorExistingLoad(r)
    \/ \E found \in BOOLEAN : MonitorExistingCheck(r, found)
    \/ \E outcome \in PollOutcomes : MonitorExistingPoll(r, outcome)

\* A request handler that has loaded its run goes on to answer.
HandlerStep(h) ==
    \/ \E p \in ServicePayloads : CallbackFinish(h, p)
    \/ CancelFinish(h)

Fairness ==
    /\ WF_vars(MonitorStep)
    /\ \A r \in RunIds : WF_vars(TaskStep(r))
    /\ \A h \in Handlers : WF_vars(HandlerStep(h))

\* The service without callback deliveries: the monitor, its tasks, restarts
\* and cancel requests.
NextNoCallback ==
    \/ \E h \in Handlers, id \in RequestIds : CancelReceive(h, id)
    \/ \E h \in Handlers : CancelFinish(h)
    \/ MonitorStep
    \/ DaemonRestart
    \/ \E r \in RunIds : TaskStep(r)

SpecFair == Init /\ [][NextNoCallback]_vars /\ Fairness

\* ----------------------------------- the service with a backend that succeeds

\* What get_run reports for a run that the backend starts, runs and completes.
SuccessPollOutcomes == { "PENDING", "STARTING", "RUNNING", "COMPLETED" }

\* What _get_run_outputs returns when its backend calls succeed.
SuccessOutputsResults(outcome) ==
    { outputs \in OutputsResultsFor(outcome) : "error" \notin outputs }

\* One step of the task of run r when start_run and every get_run succeed.
SuccessTaskStep(r) ==
    \/ ExecuteLoad(r)
    \/ ExecuteInitializing(r)
    \/ ExecuteRunning(r)
    \/ ExecuteStartRun(r, TRUE)
    \/ \E outcome \in SuccessPollOutcomes : \E outputs \in SuccessOutputsResults(outcome) :
         ExecutePoll(r, outcome, outputs)
    \/ ExecuteLogUrls(r)
    \/ ExecuteDoubleCheck(r, TRUE)

\* One step of the monitor loop when no run is CANCELING and the check of
\* existing runs has been made.
SuccessMonitorStep ==
    \/ PollQueued
    \/ QueryCanceling
    \/ CheckExistingRuns

\* The runs are created QUEUED while the monitor is running: its first
\* iteration, with the check of existing runs, has found an empty table.
InitSuccess ==
    /\ db = [ r \in RunIds |-> NewRun ]
    /\ api = [ h \in Handlers |-> IdleHandler ]
    /\ requests = 0
    /\ active_runs = { }
    /\ checked_existing_runs = TRUE
    /\ mon = Sleeping
    /\ task = [ r \in RunIds |-> NoTask ]
    /\ restarts = 0
    /\ vcall = ValidatorIdle
    /\ hist = NoHistory
    /\ wf = [ r \in RunIds |-> FlaskRun(NULL) ]
    /\ dmn = DaemonIdle
    /\ st = StoreIdle
    /\ tl = TaskLogsIdle

\* The monitor and its tasks alone: no request, no callback, no restart.
NextSuccess ==
    \/ SuccessMonitorStep
    \/ \E r \in RunIds : SuccessTaskStep(r)

\* The monitor loop keeps iterating, every task is resumed, and the poll of a
\* task reports COMPLETED in the end.
SuccessFairness ==
    /\ WF_vars(SuccessMonitorStep)
    /\ \A r \in RunIds : WF_vars(SuccessTaskStep(r))

SpecSuccess == InitSuccess /\ [][NextSuccess]_vars /\ SuccessFairness

\* ------------------------------------------- polls that reconcile task logs

\* A run submitted and RUNNING in each application, with no TaskLog row yet.
InitTaskLogs ==
    /\ db = [ r \in RunIds |->
                IF r = PolledRun
                THEN [ NewRun EXCEPT !.state = "RUNNING", !.start_time = NOW,
                                     !.outputs = { "omics_run_id", "output_location" } ]
                ELSE NewRun ]
    /\ api = [ h \in Handlers |-> IdleHandler ]
    /\ requests = 0
    /\ active_runs = { PolledRun }
    /\ checked_existing_runs = TRUE
    /\ mon = Sleeping
    /\ task = [ r \in RunIds |-> NoTask ]
    /\ restarts = 0
    /\ vcall = ValidatorIdle
    /\ hist = NoHistory
    /\ wf = [ r \in RunIds |->
                IF r = PolledRun
                THEN [ FlaskRun("healthomics") EXCEPT !.state = "RUNNING", !.provider_id = TRUE ]
                ELSE FlaskRun(NULL) ]
    /\ dmn = DaemonIdle
    /\ st = StoreIdle
    /\ tl = TaskLogsIdle

NextTaskLogs ==
    \/ \E tasks \in SUBSET TaskIds, exit_code \in RaisedExitCodes :
          update_task_logs_service(tasks, exit_code)
    \/ \E tasks \in SUBSET TaskIds : update_task_logs(tasks)

\* The polls of a RUNNING run in both applications, with any task lists.
SpecTaskLogs == InitTaskLogs /\ [][NextTaskLogs]_vars

\* ------------------------------------ callbacks handled at the same time

\* Handlers of the API process that can hold a callback at the same time, and
\* the callbacks received in all.
NumRaceHandlers == 2
MaxRaceRequests == 2

RaceHandlers == 1 .. NumRaceHandlers

\* The payloads delivered: every status, with none or all of the optional
\* fields.
RacePayloads ==
    { p \in Payloads :
        /\ p.event_id = 1
        /\ p.options \in { { }, { "status_message", "failure_reason", "output_mapping", "log_urls" } } }

\* The API process accepts a callback while another one is between its SELECT
\* and its commit (each request is a coroutine with its own session).
RaceReceive(h, id) ==
    /\ requests < MaxRaceRequests
    /\ requests' = requests + 1
    /\ CallbackLoad(h, id)

InitCallbackRace ==
    /\ db = [ r \in RunIds |-> NewRun ]
    /\ api = [ h \in RaceHandlers |-> IdleHandler ]
    /\ requests = 0
    /\ active_runs = { }
    /\ checked_existing_runs = TRUE
    /\ mon = Sleeping
    /\ task = [ r \in RunIds |-> NoTask ]
    /\ restarts = 0
    /\ vcall = ValidatorIdle
    /\ hist = NoHistory
    /\ wf = [ r \in RunIds |-> FlaskRun(NULL) ]
    /\ dmn = DaemonIdle
    /\ st = StoreIdle
    /\ tl = TaskLogsIdle

NextCallbackRace ==
    \/ \E h \in RaceHandlers, id \in RunIds \cap RequestIds : RaceReceive(h, id)
    \/ \E h \in RaceHandlers, p \in RacePayloads : CallbackFinish(h, p)
    \/ SuccessMonitorStep
    \/ \E r \in RunIds : SuccessTaskStep(r)

\* The monitor and its tasks with a backend that succeeds, and two callback
\* handlers.
SpecCallbackRace == InitCallbackRace /\ [][NextCallbackRace]_vars

\* --------------------------- the monitor when the run store raises an error

\* _poll_and_execute, lines 72-73, when the QUEUED query raises (the database
\* cannot be reached): the exception leaves _poll_and_execute and the loop of
\* start(), which logs it and raises it again (lines 47-53); main() lets it
\* pass and the process ends with its tasks.
QueryFails ==
    /\ mon.pc = "sleep"
    /\ mon' = [ Sleeping EXCEPT !.pc = "stopped" ]
    /\ task' = [ r \in RunIds |-> NoTask ]
    /\ active_runs' = { }
    /\ UNCHANGED << db, api, requests, checked_existing_runs, restarts, vcall, hist, wf, dmn, st, tl >>

\* _cancel_run for one run of canceling_runs when the commit of line 156
\* raises: nothing is stored, line 157 is not reached, and the exception takes
\* the same way out of the loop of lines 88-89, of _poll_and_execute and of
\* start().  pending keeps the runs of the query not handled yet.
CancelRunFails(r) ==
    /\ mon.pc = "cancel"
    /\ r \in mon.pending
    /\ mon' = [ mon EXCEPT !.pc = "stopped", !.pending = @ \ { r } ]
    /\ task' = [ q \in RunIds |-> NoTask ]
    /\ active_runs' = { }
    /\ UNCHANGED << db, api, requests, checked_existing_runs, restarts, vcall, hist, wf, dmn, st, tl >>

\* Runs created, and some of them cancelled, through the API before the daemon
\* is started.
InitMonitorFailure ==
    /\ db \in [ RunIds -> { NewRun, [ NewRun EXCEPT !.state = "CANCELING" ] } ]
    /\ api = [ h \in Handlers |-> IdleHandler ]
    /\ requests = 0
    /\ active_runs = { }
    /\ checked_existing_runs = FALSE
    /\ mon = Sleeping
    /\ task = [ r \in RunIds |-> NoTask ]
    /\ restarts = 0
    /\ vcall = ValidatorIdle
    /\ hist = NoHistory
    /\ wf = [ r \in RunIds |-> FlaskRun(NULL) ]
    /\ dmn = DaemonIdle
    /\ st = StoreIdle
    /\ tl = TaskLogsIdle

NextMonitorFailure ==
    \/ MonitorStep
    \/ QueryFails
    \/ \E r \in RunIds : CancelRunFails(r)
    \/ \E r \in RunIds : SuccessTaskStep(r)

\* The loop of start() goes on while it is not left by an exception, and every
\* task is resumed.
MonitorFailureFairness ==
    /\ WF_vars(MonitorStep)
    /\ \A r \in RunIds : WF_vars(SuccessTaskStep(r))

\* One daemon process with a backend that succeeds and a run store that can
\* raise in the monitor's iteration.
SpecMonitorFailure == InitMonitorFailure /\ [][NextMonitorFailure]_vars /\ MonitorFailureFairness

\* ------------------------- the service when the output manifest is not read

\* What _get_run_outputs returns when get_run succeeds and _fetch_output_mapping
\* fails (it returns {} or raises, lines 738-749): no output_mapping.
ManifestFailedOutputsResults ==
    { outputs \in RunOutputsResults : "error" \notin outputs /\ "output_mapping" \notin outputs }

\* One step of the task of run r when start_run and get_run succeed and the
\* manifest is not read, in _execute_run or in _monitor_existing_run.
ManifestFailedTaskStep(r) ==
    \/ ExecuteLoad(r)
    \/ ExecuteInitializing(r)
    \/ ExecuteRunning(r)
    \/ ExecuteStartRun(r, TRUE)
    \/ \E outcome \in SuccessPollOutcomes :
         \E outputs \in (IF outcome = "COMPLETED" THEN ManifestFailedOutputsResults
                                                 ELSE { NULL_OUTPUTS }) :
            ExecutePoll(r, outcome, outputs)
    \/ ExecuteDoubleCheck(r, TRUE)
    \/ MonitorExistingLoad(r)
    \/ MonitorExistingCheck(r, TRUE)
    \/ \E outcome \in SuccessPollOutcomes : MonitorExistingPoll(r, outcome)

\* The monitor, its tasks and restarts of the daemon: no request, no callback.
NextManifestFailed ==
    \/ PollQueued
    \/ QueryCanceling
    \/ CheckExistingRuns
    \/ \E r \in RunIds : RecoverRun(r)
    \/ RecoverDone
    \/ DaemonRestart
    \/ \E r \in RunIds : ManifestFailedTaskStep(r)

SpecManifestFailed == Init /\ [][NextManifestFailed]_vars

\* ------------------------------------------------- the transition validator

\* One call of _is_valid_transition(from_state, to_state): the function reads
\* its two arguments and the class attribute TERMINAL_STATES and returns a
\* bool; it assigns nothing.
ValidatorCall ==
    /\ vcall.result = "not called"
    /\ vcall' = [ vcall EXCEPT !.result =
                    IF IsValidTransition(vcall.from_state, vcall.to_state)
                    THEN "legal" ELSE "illegal" ]
    /\ UNCHANGED << db, api, requests, active_runs, checked_existing_runs, mon, task,
                    restarts, hist, wf, dmn, st, tl >>

\* The arguments range over every pair of the WorkflowState enum.
InitValidator ==
    /\ ServiceInit
    /\ vcall \in [ from_state : WorkflowState, to_state : WorkflowState,
                   result : { "not called" } ]
    /\ hist = NoHistory
    /\ wf = [ r \in RunIds |-> FlaskRun(NULL) ]
    /\ dmn = DaemonIdle
    /\ st = StoreIdle
    /\ tl = TaskLogsIdle

NextValidator == ValidatorCall

SpecValidator == InitValidator /\ [][NextValidator]_vars

\* --------------------------------------- callbacks delivered one at a time

\* Number of callbacks delivered one after the other.
MaxDeliveries == 3

\* handle_omics_state_change as a whole, for a stored run, with no other
\* writer between its SELECT and its commit; the delivery is recorded.
Deliver(id, p) ==
    /\ requests < MaxDeliveries
    /\ requests' = requests + 1
    /\ LET res == HandleOmicsStateChange(db[id], p)
           row == IF res.commit THEN Flush(db[id], db[id], res.run, res.flagged) ELSE db[id]
       IN  /\ db' = [ db EXCEPT ![id] = row ]
           /\ hist' = [ prev |-> hist.last,
                        last |-> [ run |-> id, payload |-> p, before |-> db[id],
                                   after |-> row, code |-> res.resp.code,
                                   previous_state |-> res.resp.previous_state,
                                   new_state |-> res.resp.new_state,
                                   already_processed |-> res.resp.already_processed ] ]
    /\ UNCHANGED << api, active_runs, checked_existing_runs, mon, task, restarts, vcall,
                    wf, dmn, st, tl >>

\* RunService.cancel_run as a whole, for a stored run, between two deliveries.
CancelRequest(id) ==
    /\ requests < MaxDeliveries
    /\ requests' = requests + 1
    /\ db' = [ db EXCEPT ![id] =
                 IF @.state \in CancelRefusedStates THEN @ ELSE [ @ EXCEPT !.state = "CANCELING" ] ]
    /\ hist' = NoHistory
    /\ UNCHANGED << api, active_runs, checked_existing_runs, mon, task, restarts, vcall,
                    wf, dmn, st, tl >>

NextCallback ==
    \/ \E id \in RunIds \cap RequestIds, p \in Payloads : Deliver(id, p)
    \/ \E id \in RunIds \cap RequestIds : CancelRequest(id)

SpecCallback == Init /\ [][NextCallback]_vars

\* ------------------------------------------- the Flask daemon (src/app)

\* ProviderFactory._providers
RegisteredProviders == { "sevenbridges", "healthomics", "arvados" }

\* process_workflow, lines 209-216: the provider type of the tags, or the default.
ProviderTypeOf(workflow) ==
    IF workflow.provider_type = NULL THEN "sevenbridges" ELSE workflow.provider_type

\* HealthOmicsProvider.get_workflow_status: status_map.get(status, 'UNKNOWN')
ProviderStatus(status) ==
    CASE status = "PENDING" -> "QUEUED"
      [] status = "STARTING" -> "INITIALIZING"
      [] status = "RUNNING" -> "RUNNING"
      [] status = "COMPLETED" -> "COMPLETE"
      [] status = "FAILED" -> "EXECUTOR_ERROR"
      [] status = "CANCELLED" -> "CANCELED"
      [] OTHER -> "UNKNOWN"

\* The states both queries of the daemon count as running.
RunningStates == { "INITIALIZING", "RUNNING", "PAUSED" }

WorkflowsIn(states) == { r \in RunIds : wf[r].state \in states }


\* poll_for_workflows, lines 162-173: the count of running workflows, the free
\* slots and the QUEUED query limited to them (any rows of that number).
poll_for_workflows ==
    /\ dmn.pc = "sleep"
    /\ LET running_count == Cardinality(WorkflowsIn(RunningStates))
           available_slots == Max(0, max_concurrent_workflows - running_count)
           queued == WorkflowsIn({ "QUEUED" })
       IN  IF available_slots <= 0
           THEN dmn' = [ pc |-> "process", pending |-> { } ]
           ELSE \E S \in SUBSET queued :
                   /\ Cardinality(S) = Min(available_slots, Cardinality(queued))
                   /\ dmn' = [ pc |-> "process", pending |-> S ]
    /\ UNCHANGED << db, api, requests, active_runs, checked_existing_runs, mon, task,
                    restarts, vcall, hist, wf, st, tl >>

\* process_workflow for a workflow loaded as QUEUED: an unsupported provider
\* type stores SYSTEM_ERROR and returns; otherwise INITIALIZING is committed
\* and the workflow is submitted: RUNNING with the provider id on success,
\* SYSTEM_ERROR with end_time when submit_workflow raises.
WorkflowAfterProcess(workflow, submitted) ==
    IF ProviderTypeOf(workflow) \notin RegisteredProviders
    THEN [ workflow EXCEPT !.state = "SYSTEM_ERROR" ]
    ELSE IF submitted
    THEN [ workflow EXCEPT !.state = "RUNNING", !.provider_type = ProviderTypeOf(workflow),
                           !.provider_id = TRUE ]
    ELSE [ workflow EXCEPT !.state = "SYSTEM_ERROR", !.end_time = NOW ]

\* poll_for_workflows, lines 179-184: process_workflow for one selected workflow.
process_workflow(r, submitted) ==
    /\ dmn.pc = "process"
    /\ r \in dmn.pending
    /\ wf' = [ wf EXCEPT ![r] = WorkflowAfterProcess(@, submitted) ]
    /\ dmn' = [ dmn EXCEPT !.pending = @ \ { r } ]
    /\ UNCHANGED << db, api, requests, active_runs, checked_existing_runs, mon, task,
                    restarts, vcall, hist, st, tl >>

\* check_workflow_status, lines 253-256: the query for running workflows,
\* after the last selected workflow has been processed.
check_workflow_status ==
    /\ dmn.pc = "process"
    /\ dmn.pending = { }
    /\ dmn' = [ pc |-> "check", pending |-> WorkflowsIn(RunningStates) ]
    /\ UNCHANGED << db, api, requests, active_runs, checked_existing_runs, mon, task,
                    restarts, vcall, hist, wf, st, tl >>

\* What update_workflow_status gets from the provider: a backend status, or
\* an exception; "skip" when the workflow was checked less than
\* status_check_interval ago.
StatusOutcomes ==
    { "PENDING", "STARTING", "RUNNING", "COMPLETED", "FAILED", "CANCELLED", "STOPPING",
      "exception", "skip" }

\* update_workflow_status for one running workflow: the state the provider
\* reports is stored as it is, with end_time when it is terminal; nothing is
\* stored without provider information, on an exception or on a skip.
update_workflow_status(r, outcome) ==
    /\ dmn.pc = "check"
    /\ r \in dmn.pending
    /\ dmn' = [ dmn EXCEPT !.pending = @ \ { r } ]
    /\ IF outcome \in { "exception", "skip" } \/ ~ wf[r].provider_id
       THEN UNCHANGED wf
       ELSE LET state == ProviderStatus(outcome)
            IN  wf' = [ wf EXCEPT ![r] =
                          [ @ EXCEPT !.state = state,
                                     !.end_time = IF state \in { "COMPLETE", "EXECUTOR_ERROR",
                                                                  "SYSTEM_ERROR", "CANCELED" }
                                                  THEN NOW ELSE @ ] ]
    /\ UNCHANGED << db, api, requests, active_runs, checked_existing_runs, mon, task,
                    restarts, vcall, hist, st, tl >>

\* WorkflowDaemon.run, line 86: the round is over, the daemon sleeps.
daemon_sleep ==
    /\ dmn.pc = "check"
    /\ dmn.pending = { }
    /\ dmn' = DaemonIdle
    /\ UNCHANGED << db, api, requests, active_runs, checked_existing_runs, mon, task,
                    restarts, vcall, hist, wf, st, tl >>

\* process_workflow_by_id, on the notification server's thread: a QUEUED
\* workflow is processed when fewer than max_concurrent_workflows are running.
process_workflow_by_id(r, submitted) ==
    /\ wf[r].state = "QUEUED"
    /\ Cardinality(WorkflowsIn(RunningStates)) < max_concurrent_workflows
    /\ wf' = [ wf EXCEPT ![r] = WorkflowAfterProcess(@, submitted) ]
    /\ UNCHANGED << db, api, requests, active_runs, checked_existing_runs, mon, task,
                    restarts, vcall, hist, dmn, st, tl >>

\* WorkflowRunCancel.post for a stored run, when the backend accepts the
\* cancellation: state CANCELED is committed.
WorkflowRunCancel_post(r) ==
    /\ wf' = [ wf EXCEPT ![r] = [ @ EXCEPT !.state = "CANCELED" ] ]
    /\ UNCHANGED << db, api, requests, active_runs, checked_existing_runs, mon, task,
                    restarts, vcall, hist, dmn, st, tl >>

\* The runs are stored with any of the provider types.
InitDaemon ==
    /\ ServiceInit
    /\ vcall = ValidatorIdle
    /\ hist = NoHistory
    /\ wf \in [ RunIds -> { FlaskRun(t) : t \in ProviderTypes } ]
    /\ dmn = DaemonIdle
    /\ st = StoreIdle
    /\ tl = TaskLogsIdle

NextDaemon ==
    \/ poll_for_workflows
    \/ \E r \in RunIds, submitted \in BOOLEAN : process_workflow(r, submitted)
    \/ check_workflow_status
    \/ \E r \in RunIds, outcome \in StatusOutcomes : update_workflow_status(r, outcome)
    \/ daemon_sleep
    \/ \E r \in RunIds, submitted \in BOOLEAN : process_workflow_by_id(r, submitted)
    \/ \E r \in RunIds : WorkflowRunCancel_post(r)

SpecDaemon == InitDaemon /\ [][NextDaemon]_vars

\* One step of a round of WorkflowDaemon.run: the loop runs while
\* self.running and catches the exceptions of a round.
DaemonStep ==
    \/ poll_for_workflows
    \/ \E r \in RunIds, submitted \in BOOLEAN : process_workflow(r, submitted)
    \/ check_workflow_status
    \/ \E r \in RunIds, outcome \in StatusOutcomes : update_workflow_status(r, outcome)
    \/ daemon_sleep

\* The statuses of a backend run that has ended.
FinalStatuses == { "COMPLETED", "FAILED", "CANCELLED" }

\* The backend answers a status check of r with a final status.
FinalStatusReported(r) ==
    \E outcome \in FinalStatuses : update_workflow_status(r, outcome)

\* The daemon keeps running, and a workflow whose status is checked again and
\* again is reported with a final status in the end.
DaemonFairness ==
    /\ WF_vars(DaemonStep)
    /\ \A r \in RunIds : SF_vars(FinalStatusReported(r))

SpecDaemonFair == InitDaemon /\ [][NextDaemon]_vars /\ DaemonFairness

\* ------------------------------------------------------------- properties

\* The edges of the transition table of the specification, section 4.1.
TableEdges ==
    ({ "UNKNOWN" } \X { "QUEUED", "INITIALIZING", "RUNNING", "SYSTEM_ERROR" })
    \cup ({ "QUEUED" } \X { "INITIALIZING", "RUNNING", "CANCELED", "SYSTEM_ERROR" })
    \cup ({ "INITIALIZING" } \X { "RUNNING", "CANCELED", "EXECUTOR_ERROR", "SYSTEM_ERROR" })
    \cup ({ "RUNNING" } \X { "COMPLETE", "EXECUTOR_ERROR", "CANCELED", "SYSTEM_ERROR", "PAUSED" })
    \cup ({ "PAUSED" } \X { "RUNNING", "CANCELED", "SYSTEM_ERROR" })
    \cup ({ "CANCELING" } \X { "CANCELED", "SYSTEM_ERROR" })

\* The terminal states as the specification lists them.
TerminalSet == { "COMPLETE", "EXECUTOR_ERROR", "SYSTEM_ERROR", "CANCELED" }

\* C2: no escape from terminal states: for every terminal state T and every
\* state S of the enum, the validator called with (T, S) returns illegal.
C2_NoEscapeFromTerminal ==
    (vcall.result # "not called" /\ vcall.from_state \in TerminalSet)
        => vcall.result = "illegal"

\* The validator has been called with (COMPLETE, RUNNING) and has answered.
C2_Witness ==
    /\ vcall.from_state = "COMPLETE"
    /\ vcall.to_state = "RUNNING"
    /\ vcall.result = "illegal"

\* C4: the validator answers legal for (from, to) exactly when the pair is an
\* edge of the table, illegal for every other pair of the 11 states, and a
\* call changes nothing but its own result.
C4_ValidatorIsTheTable ==
    /\ [](vcall.result # "not called"
            => (vcall.result = "legal"
                  <=> << vcall.from_state, vcall.to_state >> \in TableEdges))
    /\ [][ValidatorCall
            => UNCHANGED << db, api, requests, active_runs, checked_existing_runs, mon,
                            task, restarts, hist, wf, dmn, st, tl >>]_vars

\* The validator has been called with (RUNNING, PAUSED) and has answered legal.
C4_Witness ==
    /\ vcall.from_state = "RUNNING"
    /\ vcall.to_state = "PAUSED"
    /\ vcall.result = "legal"

\* The last two deliveries carried the same event for the same run, one
\* directly after the other.
SameEventTwice ==
    /\ hist.prev.run \in RunIds
    /\ hist.last.run = hist.prev.run
    /\ hist.last.payload = hist.prev.payload

\* The first of the last two deliveries was applied to the run.
FirstApplied ==
    /\ hist.prev.code = 200
    /\ hist.prev.after # hist.prev.before

\* C5: after a callback event has been applied to a run, a second delivery of
\* the same event returns success with already_processed = true and does not
\* mutate the run.
C5_SecondDeliveryAlreadyProcessed ==
    (SameEventTwice /\ FirstApplied)
        => /\ hist.last.code = 200
           /\ hist.last.already_processed = TRUE
           /\ hist.last.after = hist.last.before

\* FAILED with event id 1 has been delivered twice in succession to a RUNNING
\* run: the second delivery answers already_processed = false.
C5_FailingInput ==
    /\ SameEventTwice
    /\ FirstApplied
    /\ hist.prev.before.state = "RUNNING"
    /\ hist.last.payload.status = "FAILED"
    /\ hist.last.payload.event_id = 1
    /\ hist.last.code = 200
    /\ hist.last.already_processed = FALSE

\* C6: idempotent callback: delivering the same event twice in succession
\* leaves the stored run (state, end_time, exit_code, outputs, system_logs)
\* identical to the stored run after the first delivery.
C6_IdempotentCallback ==
    SameEventTwice
        => /\ hist.last.after = hist.prev.after
           /\ db[hist.last.run] = hist.prev.after

\* FAILED has been delivered twice in succession to a RUNNING run: the first
\* delivery stored EXECUTOR_ERROR, the second returned success.
C6_Witness ==
    /\ SameEventTwice
    /\ FirstApplied
    /\ hist.prev.before.state = "RUNNING"
    /\ hist.last.payload.status = "FAILED"
    /\ hist.prev.after.state = "EXECUTOR_ERROR"
    /\ hist.last.code = 200

\* C1: terminal freeze: once the stored state of a run is terminal, no write
\* of the monitor, its executor tasks, the callback handler or a cancel
\* request changes the stored state.
C1_TerminalFreeze ==
    [][\A r \in RunIds :
         db[r].state \in TerminalSet => db'[r].state = db[r].state]_vars

\* A run is stored as EXECUTOR_ERROR while its executor task is about to ask
\* the backend once more and store what it answers.
C1_FailingInput ==
    \E r \in RunIds :
        /\ db[r].state = "EXECUTOR_ERROR"
        /\ task[r].pc = "double_check"
        /\ task[r].local.state = "EXECUTOR_ERROR"

\* C3: every change of a run's stored state, by any operation, is an edge of
\* the transition table (and so starts in a non-terminal state).
C3_OnlyTableEdges ==
    [][\A r \in RunIds :
         db'[r].state # db[r].state
            => << db[r].state, db'[r].state >> \in TableEdges]_vars

\* A cancel request has been accepted for a run it loaded as QUEUED and the
\* run is stored as CANCELING.
C3_FailingInput ==
    \E h \in Handlers :
        /\ api[h].kind = "cancel_done"
        /\ api[h].code = 200
        /\ api[h].previous_state = "QUEUED"
        /\ api[h].mutated
        /\ db[api[h].run].state = "CANCELING"

\* The handler h has answered a callback for a stored run.
CallbackAnswered(h) == api[h].kind = "callback_done" /\ api[h].run \in RunIds

\* C7: terminal-state callback absorption: a callback with a mappable status
\* for a run read in a terminal state returns success with that state as
\* previous and new state and leaves the stored run unchanged.
C7_TerminalAbsorption ==
    \A h \in Handlers :
        (CallbackAnswered(h) /\ api[h].mapped # NULL
         /\ api[h].previous_state \in TerminalSet)
            => /\ api[h].code = 200
               /\ api[h].new_state = api[h].previous_state
               /\ ~ api[h].mutated

\* A callback mapped to RUNNING has been answered for a run read as COMPLETE.
C7_Witness ==
    \E h \in Handlers :
        /\ CallbackAnswered(h)
        /\ api[h].mapped = "RUNNING"
        /\ api[h].previous_state = "COMPLETE"
        /\ api[h].code = 200
        /\ db[api[h].run].state = "COMPLETE"

\* C8: a callback whose mapped state is not an allowed next state of the
\* run's non-terminal state is rejected with 400 and the stored run is left
\* unchanged.
C8_IllegalTransitionRejected ==
    \A h \in Handlers :
        (CallbackAnswered(h) /\ api[h].mapped # NULL
         /\ api[h].previous_state \notin TerminalSet
         /\ << api[h].previous_state, api[h].mapped >> \notin TableEdges)
            => /\ api[h].code = 400
               /\ ~ api[h].mutated

\* A callback mapped to COMPLETE has been rejected for a run read as QUEUED.
C8_Witness ==
    \E h \in Handlers :
        /\ CallbackAnswered(h)
        /\ api[h].mapped = "COMPLETE"
        /\ api[h].previous_state = "QUEUED"
        /\ api[h].code = 400

\* C9: a callback whose wes_run_id matches no stored run is rejected with 404
\* and the step that answers it leaves every stored run as it is.
C9_UnknownRunNotFound ==
    [][\A h \in Handlers :
         (api'[h] # api[h] /\ api'[h].kind = "callback_done" /\ api'[h].run \notin RunIds)
            => (api'[h].code = 404 /\ db' = db)]_vars

\* A callback for an unknown run id has been answered with 404.
C9_Witness ==
    \E h \in Handlers :
        /\ api[h].kind = "callback_done"
        /\ api[h].run = UnknownRunId
        /\ api[h].code = 404

\* C10: end_time invariant, terminal direction: every run whose stored state
\* is terminal has a non-null end_time.
C10_TerminalHasEndTime ==
    \A r \in RunIds : wf[r].state \in TerminalSet => wf[r].end_time # NULL

\* A run stored as QUEUED has been cancelled through the WES cancel endpoint
\* and is stored as CANCELED with no end_time.
C10_FailingInput ==
    \E r \in RunIds : wf[r].state = "CANCELED" /\ wf[r].end_time = NULL

\* The same invariant on the runs of the FastAPI service.
ServiceTerminalHasEndTime ==
    \A r \in RunIds : db[r].state \in TerminalSet => db[r].end_time # NULL

\* C11: end_time invariant, non-terminal direction: every run whose stored
\* state is non-terminal has a null end_time.
C11_NonTerminalHasNoEndTime ==
    \A r \in RunIds : db[r].state \notin TerminalSet => db[r].end_time = NULL

\* A cancel request that read the run before it became terminal has stored
\* CANCELING on a run that carries an end_time.
C11_FailingInput ==
    \E h \in Handlers :
        /\ api[h].kind = "cancel_done"
        /\ api[h].code = 200
        /\ api[h].mutated
        /\ db[api[h].run].state = "CANCELING"
        /\ db[api[h].run].end_time # NULL

\* The runs for which the step creates a background task.
Dispatched == { r \in RunIds : task[r].pc = "none" /\ task'[r].pc = "execute" }

DaemonCeilingPerPoll ==
    dmn.pc = "process" => Cardinality(dmn.pending) <= max_concurrent_workflows

\* The handler h has answered a cancel request for a stored run.
CancelAnswered(h) == api[h].kind = "cancel_done" /\ api[h].run \in RunIds

\* C13: a cancel request for a run read in a terminal state is rejected with
\* an error and leaves the stored run unchanged.
C13_CancelTerminalRejected ==
    \A h \in Handlers :
        (CancelAnswered(h) /\ api[h].previous_state \in TerminalSet)
            => /\ api[h].code = 400
               /\ ~ api[h].mutated

\* A cancel request for a COMPLETE run has been rejected.
C13_Witness ==
    \E h \in Handlers :
        /\ CancelAnswered(h)
        /\ api[h].previous_state = "COMPLETE"
        /\ api[h].code = 400
        /\ db[api[h].run].state = "COMPLETE"

C15_CancelEventuallyCanceled ==
    \A r \in RunIds :
        [](db[r].state = "CANCELING" => <>[](db[r].state = "CANCELED"))

\* An accepted cancellation has been overwritten: the run was stored as
\* CANCELING by the request, and its executor task has since stored RUNNING.
C15_FailingInput ==
    \E h \in Handlers :
        /\ CancelAnswered(h)
        /\ api[h].code = 200
        /\ api[h].mutated
        /\ db[api[h].run].state = "RUNNING"
        /\ task[api[h].run].pc = "running"

\* The stored system_logs of a row holds the entry.
Logged(row, entry) == \E i \in DOMAIN row.system_logs : row.system_logs[i] = entry

\* The step in which the task of run r returns because start_run failed.
SubmitFailed(r) ==
    /\ task[r].pc = "running"
    /\ task'[r] = NoTask
    /\ restarts' = restarts

\* C16: when submitting a run to the backend fails, the run is stored as
\* SYSTEM_ERROR with the error text in system_logs, and no task is started for
\* it again.
C16_SubmitFailureRecorded ==
    [][\A r \in RunIds :
         /\ SubmitFailed(r) =>
               /\ db'[r].state = "SYSTEM_ERROR"
               /\ Logged(db'[r], StartFailedLog)
         /\ (db[r].state = "SYSTEM_ERROR" /\ task[r].pc = "none") => task'[r].pc = "none"
    ]_vars

\* start_run has failed for a run (started, never given an Omics run id,
\* stored as SYSTEM_ERROR by its task) and the stored system_logs is empty.
C16_FailingInput ==
    \E r \in RunIds :
        /\ requests = 0
        /\ restarts = 0
        /\ db[r].state = "SYSTEM_ERROR"
        /\ db[r].start_time # NULL
        /\ db[r].exit_code = 1
        /\ "omics_run_id" \notin OutputsOrEmpty(db[r].outputs)
        /\ task[r].pc = "none"
        /\ db[r].system_logs = << >>

\* The step in which the get_run call of a poll of run r raises.
PollRaised(r) ==
    /\ task[r].pc = "monitoring"
    /\ task'[r].pc # "none"
    /\ ~ Logged(task[r].local, PollErrorLog)
    /\ Logged(task'[r].local, PollErrorLog)

\* C17: when the backend call of a status poll fails, the stored state of the
\* run is left as it is and the run is polled again.
C17_PollErrorNotFatal ==
    [][\A r \in RunIds :
         PollRaised(r) => /\ db'[r].state = db[r].state
                          /\ task'[r].pc = "monitoring"
    ]_vars

\* A poll of a RUNNING run has raised and the run is stored as SYSTEM_ERROR
\* with end_time; its task has left the polling loop.
C17_FailingInput ==
    \E r \in RunIds :
        /\ requests = 0
        /\ restarts = 0
        /\ task[r].pc = "double_check"
        /\ Logged(task[r].local, PollErrorLog)
        /\ db[r].state = "SYSTEM_ERROR"
        /\ db[r].end_time # NULL
        /\ "omics_run_id" \in OutputsOrEmpty(db[r].outputs)

\* The WES states the status map of the provider yields for the statuses it
\* knows.
MappedProviderStates ==
    { "QUEUED", "INITIALIZING", "RUNNING", "COMPLETE", "EXECUTOR_ERROR", "CANCELED" }

\* The step in which the daemon stores what the provider reports for r.
StatusStored(r) ==
    /\ dmn.pc = "check"
    /\ r \in dmn.pending
    /\ r \notin dmn'.pending
    /\ wf'[r] # wf[r]

\* C18: a poll that returns a backend status without a mapping to a WES state
\* stores SYSTEM_ERROR: the run is never left non-terminal or UNKNOWN by it.
C18_UnmappedStatusIsSystemError ==
    [][\A r \in RunIds :
         StatusStored(r) => wf'[r].state \in MappedProviderStates \cup { "SYSTEM_ERROR" }
    ]_vars

\* A submitted workflow whose backend reported a status outside the status
\* map: it is stored as UNKNOWN without end_time.
C18_FailingInput ==
    \E r \in RunIds :
        /\ wf[r].state = "UNKNOWN"
        /\ wf[r].provider_type = "healthomics"
        /\ wf[r].provider_id
        /\ wf[r].end_time = NULL
        /\ dmn.pc = "check"

\* Every run of the service stored as INITIALIZING or RUNNING eventually
\* reaches a terminal state.
ServiceDispatchedEventuallyTerminal ==
    \A r \in RunIds :
        [](db[r].state \in { "INITIALIZING", "RUNNING" } => <>(db[r].state \in TerminalSet))

\* The order of stored states of a run whose executor succeeds.
SuccessPath ==
    { << "QUEUED", "INITIALIZING" >>, << "INITIALIZING", "RUNNING" >>,
      << "RUNNING", "COMPLETE" >> }

\* What is stored with a run in state RUNNING and in state COMPLETE.
SuccessStateShape(run) ==
    /\ run.state \in { "QUEUED", "INITIALIZING", "RUNNING", "COMPLETE" }
    /\ run.state = "RUNNING" =>
          /\ run.start_time # NULL
          /\ run.end_time = NULL
          /\ OutputsOrEmpty(run.outputs) \cap { "output_mapping", "logs", "error" } = { }
    /\ run.state = "COMPLETE" =>
          /\ run.exit_code = 0
          /\ run.end_time # NULL
          /\ run.start_time # NULL
          /\ "output_location" \in OutputsOrEmpty(run.outputs)

C21_ManifestFailureKeepsComplete ==
    \A r \in RunIds :
        /\ db[r].state \notin { "SYSTEM_ERROR", "EXECUTOR_ERROR" }
        /\ db[r].state = "COMPLETE" =>
              /\ db[r].exit_code = 0
              /\ "output_mapping" \notin OutputsOrEmpty(db[r].outputs)

\* A run taken over after a restart, whose backend run was found and then
\* reported COMPLETED, is stored as SYSTEM_ERROR with exit_code 1.
C21_FailingInput ==
    \E r \in RunIds :
        /\ restarts = 1
        /\ db[r].state = "SYSTEM_ERROR"
        /\ db[r].exit_code = 1
        /\ "omics_run_id" \in OutputsOrEmpty(db[r].outputs)
        /\ task[r].pc = "none"
        /\ r \notin active_runs

\* C19: every run stored as INITIALIZING or RUNNING eventually reaches a
\* terminal state, while the daemon keeps running and the backend reports a
\* final status in the end.
C19_DispatchedEventuallyTerminal ==
    \A r \in RunIds :
        [](wf[r].state \in { "INITIALIZING", "RUNNING" } => <>(wf[r].state \in TerminalSet))

\* A dispatched workflow is stored in a state that is neither terminal nor
\* selected by the status check, while the daemon is between two rounds.
C19_FailingInput ==
    \E r \in RunIds :
        /\ wf[r].provider_id
        /\ wf[r].state \notin TerminalSet \cup RunningStates \cup { "QUEUED" }
        /\ dmn.pc = "sleep"


\* ------------------------------------------------------------ run store

UnsupportedTypes == { t \in WorkflowTypes : \A s \in supported_types : Upper(t) # s }

\* C22: every create request that stores a run stores exactly one, in state
\* QUEUED with null start_time, end_time and exit_code, and a request with an
\* unsupported workflow type fails and leaves the stored runs as they were.
C22_CreatedRunsQueued ==
    [][ st'.creates # st.creates =>
          /\ st'.last.workflow_type \in UnsupportedTypes =>
                /\ st'.rows = st.rows
                /\ st'.last.outcome = "ValueError"
          /\ st'.rows # st.rows =>
                /\ Len(st'.rows) = Len(st.rows) + 1
                /\ SubSeq(st'.rows, 1, Len(st.rows)) = st.rows
                /\ LET run == st'.rows[Len(st'.rows)]
                   IN  /\ run.state = "QUEUED"
                       /\ run.start_time = NULL
                       /\ run.end_time = NULL
                       /\ run.exit_code = NULL_INT ]_vars

\* A lower-case type was stored, and a later request with an unsupported type
\* was refused.
C22_Witness ==
    /\ st.last.workflow_type \in UnsupportedTypes
    /\ st.last.outcome = "ValueError"
    /\ \E i \in 1..Len(st.rows) : st.rows[i].workflow_type = "CWL" /\ st.rows[i].state = "QUEUED"

\* C23: each page holds at most page_size runs (at most 100), the token of a
\* response is empty exactly when no run lies behind its page, and when the
\* client has followed the tokens to the empty one without a run being
\* created in between, it has received every stored run exactly once.
C23_PaginationExactlyOnce ==
    /\ st.page_size # NULL_INT => Len(st.page) <= st.page_size
    /\ Len(st.page) <= MaxPageSize
    /\ (st.pc # "idle" /\ st.listed = Len(st.rows)) =>
          (st.next_page_token = << >> <=> st.offset + Len(st.page) >= Len(st.rows))
    /\ (st.pc = "done" /\ st.listed = Len(st.rows)) =>
          /\ Len(st.seen) = Len(st.rows)
          /\ \A i \in 1..Len(st.rows) : \E k \in 1..Len(st.seen) : st.seen[k] = i

\* Two runs were created within one second and listed with page_size 1: the
\* second page repeats the run of the first, and the other run is missing.
C23_FailingInput ==
    /\ Len(st.rows) = 2
    /\ st.rows[1].created_at = st.rows[2].created_at
    /\ st.page_size = 1
    /\ st.pc = "done"
    /\ st.listed = 2
    /\ Len(st.seen) = 2
    /\ st.seen[1] = st.seen[2]


\* ------------------------------------------------- concurrency ceiling

\* The runs the monitor has dispatched or taken over that are not terminal.
ActiveNonTerminal == { r \in active_runs : db[r].state \notin TERMINAL_STATES }

\* C24: at every moment at most daemon_max_concurrent_runs runs that the
\* monitor has dispatched or taken over are not terminal, and the LIMIT the
\* dispatch phase is about to use is not negative.
C24_ConcurrencyCeiling ==
    /\ Cardinality(ActiveNonTerminal) <= daemon_max_concurrent_runs
    /\ mon.pc = "sleep" => DispatchLimit >= 0

\* After a restart the monitor has dispatched one run and taken over another
\* in its first iteration; it is about to dispatch with a negative LIMIT.
C24_FailingInput ==
    /\ restarts = 1
    /\ mon.pc = "sleep"
    /\ Cardinality(ActiveNonTerminal) = 2
    /\ DispatchLimit < 0
    /\ \E r \in RunIds : task[r].pc = "monitor_existing"


\* ------------------------------------------------ cancellation by the monitor

\* The entry _cancel_run appends, and the calls _cancel_run makes.
CanceledLog == "Workflow canceled by user"

cancel_run_calls == { "db.commit", "active_runs.discard" }

\* The step in which _cancel_run handles run r of the CANCELING query.
MonitorCancels(r) ==
    /\ mon.pc = "cancel"
    /\ mon'.pc = "cancel"
    /\ r \in mon.pending
    /\ r \notin mon'.pending

\* C25: for every run of the CANCELING query the monitor calls the executor's
\* cancel and stores CANCELED with end_time and an entry in system_logs.
C25_CancelingIsCanceled ==
    [][ \A r \in RunIds : MonitorCancels(r) =>
          /\ "executor.cancel" \in cancel_run_calls
          /\ db'[r].state = "CANCELED"
          /\ db'[r].end_time # NULL
          /\ Logged(db'[r], CanceledLog) ]_vars

\* The monitor has stored CANCELED for a run whose task is still polling the
\* backend; the table holds no entry of the cancellation.
C25_FailingInput ==
    \E r \in RunIds :
        /\ mon.pc = "cancel"
        /\ r \notin mon.pending
        /\ db[r].state = "CANCELED"
        /\ db[r].end_time # NULL
        /\ ~Logged(db[r], CanceledLog)
        /\ task[r].pc = "monitoring"


\* ------------------------------------------- callbacks closing a run

\* The last delivery moved a run that was not terminal to a terminal state.
CallbackClosedRun ==
    /\ hist.last.code = 200
    /\ hist.last.before.state \notin TERMINAL_STATES
    /\ hist.last.after.state \in TERMINAL_STATES

\* C26: when a callback moves a non-terminal run to a terminal state T, the
\* stored run has state T, an end_time, exit_code 0 for COMPLETE and a
\* non-zero exit_code otherwise, for COMPLETE the supplied output mapping and
\* log URLs in outputs, and the event id as its last event id.
C26_CallbackClosesRun ==
    CallbackClosedRun =>
        LET d == hist.last
        IN  /\ d.after.state = MappedState(d.payload)
            /\ db[d.run] = d.after
            /\ d.after.end_time # NULL
            /\ d.after.exit_code # NULL_INT
            /\ d.after.exit_code = 0 <=> d.after.state = "COMPLETE"
            /\ d.after.state = "COMPLETE" =>
                  (d.payload.options \cap { "output_mapping", "log_urls" })
                      \subseteq OutputsOrEmpty(d.after.outputs)
            /\ d.after.last_event_id = d.payload.event_id

\* COMPLETED with event id 1, an output mapping and log URLs has been
\* delivered to a RUNNING run: the run is stored COMPLETE with exit_code 0,
\* end_time and both outputs, and without the event id.
C26_FailingInput ==
    /\ CallbackClosedRun
    /\ hist.last.before.state = "RUNNING"
    /\ hist.last.payload.status = "COMPLETED"
    /\ hist.last.payload.event_id = 1
    /\ hist.last.after.state = "COMPLETE"
    /\ hist.last.after.exit_code = 0
    /\ hist.last.after.end_time # NULL
    /\ { "output_mapping", "log_urls" } \subseteq OutputsOrEmpty(hist.last.after.outputs)
    /\ hist.last.after.last_event_id # 1


\* ------------------------------------------ failures in a monitor iteration

\* C27: a failure while the monitor processes one run of a phase does not keep
\* the remaining runs of that phase from being processed in the same
\* iteration: no iteration ends with runs of its query left unhandled.
C27_FailureIsolatedPerRun ==
    mon.pc \notin { "cancel", "recover" } => mon.pending = { }

\* The commit for the first of two CANCELING runs has failed: the iteration
\* is over, the other run was not handled and both are still CANCELING.
C27_FailingInput ==
    /\ mon.pc = "stopped"
    /\ mon.pending # { }
    /\ \A r \in RunIds : db[r].state = "CANCELING"

\* C28: an error in one monitor iteration ends that iteration only: the loop
\* goes on and begins a further iteration.
C28_LoopSurvivesError ==
    (mon.pc = "stopped") ~> (mon.pc = "sleep")

\* The QUEUED query has failed with a run still QUEUED: the loop has been
\* left, no task exists and nothing will dispatch the run.
C28_FailingInput ==
    /\ mon.pc = "stopped"
    /\ restarts = 0
    /\ \E r \in RunIds : db[r].state = "QUEUED" /\ task[r].pc = "none"


\* ------------------------------------------------------------ start_time

\* C29: start_time is null while a run is QUEUED, is set by the step that
\* takes the run out of QUEUED, and is not changed once it is set.
C29_StartTimeSetOnLeavingQueued ==
    /\ [](\A r \in RunIds : db[r].state = "QUEUED" => db[r].start_time = NULL)
    /\ [][ \A r \in RunIds :
             /\ (db[r].state = "QUEUED" /\ db'[r].state # "QUEUED") => db'[r].start_time # NULL
             /\ db[r].start_time # NULL => db'[r].start_time = db[r].start_time ]_vars

\* The task of a dispatched run has stored INITIALIZING: the run has left
\* QUEUED and has no start_time.
C29_FailingInput ==
    \E r \in RunIds :
        /\ db[r].state = "INITIALIZING"
        /\ db[r].start_time = NULL
        /\ task[r].pc = "initializing"
        /\ r \in active_runs


\* -------------------------------------------------------------- exit_code

\* C30: a run has an exit_code only if its stored state is terminal, and then
\* the exit_code is 0 exactly when the state is COMPLETE.
C30_ExitCodeMatchesState ==
    \A r \in RunIds :
        db[r].exit_code # NULL_INT =>
            /\ db[r].state \in TERMINAL_STATES
            /\ db[r].exit_code = 0 <=> db[r].state = "COMPLETE"


\* The monitor has stored CANCELED, from a row it had queried earlier (in the
\* CANCELING query or the start-up check), for a run its task had meanwhile
\* stored COMPLETE with exit_code 0: a CANCELED run has exit_code 0.
C30_FailingInput ==
    \E r \in RunIds :
        /\ db[r].state = "CANCELED"
        /\ db[r].exit_code = 0
        /\ db[r].start_time # NULL
        /\ db[r].end_time # NULL
        /\ task[r].pc = "none"
        /\ r \notin mon.pending


\* ---------------------------------------------------------------- outputs

\* C31: the outputs of a run are non-null only if its stored state is
\* COMPLETE.
C31_OutputsOnlyWhenComplete ==
    \A r \in RunIds : db[r].outputs # NULL_OUTPUTS => db[r].state = "COMPLETE"

\* start_run has succeeded for a dispatched run: the run is RUNNING, its task
\* is polling, and outputs holds the backend run id and the output location.
C31_FailingInput ==
    \E r \in RunIds :
        /\ db[r].state = "RUNNING"
        /\ task[r].pc = "monitoring"
        /\ { "omics_run_id", "output_location" } \subseteq OutputsOrEmpty(db[r].outputs)
        /\ db[r].end_time = NULL
        /\ requests = 0
        /\ restarts = 0


\* ------------------------------------------------------------ system_logs

\* C32: the stored system_logs of a run is append-only under every
\* interleaving of the monitor's, the executor's and the callback handlers'
\* writes: no step shortens it or changes an entry already stored.
C32_SystemLogsAppendOnly ==
    [][ \A r \in RunIds :
          /\ Len(db'[r].system_logs) >= Len(db[r].system_logs)
          /\ \A i \in DOMAIN db[r].system_logs :
                db'[r].system_logs[i] = db[r].system_logs[i] ]_vars


\* Two callbacks for the same run were both applied (each appends at least
\* one entry), and the stored list holds the single entry of the one that
\* committed last: the entries of the other are gone.
C32_FailingInput ==
    /\ DOMAIN api = RaceHandlers
    /\ \A h \in RaceHandlers :
          /\ api[h].kind = "callback_done"
          /\ api[h].run = 1
          /\ api[h].code = 200
          /\ api[h].mutated
    /\ Len(db[1].system_logs) = 1


\* ----------------------------------------------------------- status maps

\* The state a poll of _monitor_omics_run leaves the run in: the final state
\* it returns, or RUNNING while it polls again.
PollState(status) ==
    IF MonitorResult(status) = "poll again" THEN "RUNNING" ELSE MonitorResult(status)

\* C33: the polling paths and the callback path assign the same WES state to
\* every backend status: the executor's poll agrees with OMICS_STATUS_MAP,
\* and the state the daemon stores from a status poll is the state
\* OMICS_STATUS_MAP assigns to the status the provider reported.
C33_StatusMapsAgree ==
    /\ [](\A s \in OmicsStatuses : PollState(s) = OMICS_STATUS_MAP[s])
    /\ [][ \A r \in RunIds :
             StatusStored(r) =>
                 \E s \in StatusOutcomes \cap OmicsStatuses :
                     /\ ProviderStatus(s) = wf'[r].state
                     /\ OMICS_STATUS_MAP[s] = wf'[r].state ]_vars

\* The backend reported PENDING for a submitted workflow: the daemon has
\* stored QUEUED, where a callback with the same status stores RUNNING.
C33_FailingInput ==
    \E r \in RunIds :
        /\ wf[r].state = "QUEUED"
        /\ wf[r].provider_id
        /\ wf[r].provider_type = "healthomics"
        /\ ProviderStatus("PENDING") = "QUEUED"
        /\ OMICS_STATUS_MAP["PENDING"] = "RUNNING"


\* -------------------------------------------------------------- task logs

Names(rows) == { row.name : row \in rows }

\* C34: two polls in a row with the same backend task list leave the stored
\* TaskLog rows as they were after the first (one row per task), raise
\* nothing and leave the run RUNNING, in the executor and in the daemon.
C34_TaskLogsIdempotent ==
    /\ (tl.polls >= 2 /\ tl.tasks = tl.prev_tasks) =>
          /\ ~tl.raised
          /\ db[PolledRun].state = "RUNNING"
          /\ tl.task_logs = tl.prev_task_logs
          /\ tl.tasks \subseteq tl.task_logs
    /\ (tl.wf_polls >= 2 /\ tl.wf_tasks = tl.wf_prev_tasks) =>
          /\ wf[PolledRun].state = "RUNNING"
          /\ Names(tl.wf_task_logs) = Names(tl.wf_prev_task_logs)
          /\ Names(tl.wf_task_logs) = tl.wf_tasks
          /\ Cardinality(tl.wf_task_logs) = Cardinality(tl.wf_tasks)

\* The executor has polled twice and got task 1 both times: the second poll
\* raised and the run, still running on the backend, is stored SYSTEM_ERROR.
C34_FailingInput ==
    /\ tl.polls = 2
    /\ tl.tasks = { 1 }
    /\ tl.prev_tasks = { 1 }
    /\ tl.task_logs = { 1 }
    /\ tl.raised
    /\ db[PolledRun].state = "SYSTEM_ERROR"


\* ------------------------------------------------------ submitted only once

\* A step in which the daemon calls provider.submit_workflow for r, from the
\* poll loop or from the notification server's thread.
SubmitCalled(r) ==
    /\ ProviderTypeOf(wf[r]) \in RegisteredProviders
    /\ \E submitted \in BOOLEAN :
          \/ process_workflow(r, submitted)
          \/ process_workflow_by_id(r, submitted)

\* C35: no run is submitted to the backend a second time, and a run that has
\* left QUEUED never returns to QUEUED.
C35_SubmittedAtMostOnce ==
    [][ \A r \in RunIds :
          /\ wf[r].state # "QUEUED" => wf'[r].state # "QUEUED"
          /\ ~ (wf[r].provider_id /\ SubmitCalled(r)) ]_vars

\* The poll loop has selected r as QUEUED, the notification thread has
\* submitted it since, and the loop is about to process it.
C35_FailingInput ==
    \E r \in RunIds :
       /\ dmn.pc = "process"
       /\ r \in dmn.pending
       /\ wf[r].provider_id
       /\ wf[r].state = "RUNNING"


\* ------------------------------------------- callbacks to the current state

\* The last delivery reported a status that maps to the state the run was
\* stored in, and that state is not terminal.
SameStateDelivered ==
    /\ hist.last.code # NULL_INT
    /\ hist.last.before.state \notin TERMINAL_STATES
    /\ MappedState(hist.last.payload) = hist.last.before.state

\* C36: a callback whose status maps to the run's current non-terminal state
\* is rejected with 400 and leaves the stored run unchanged.  (The handler
\* records no event id, so every delivered event id is one not yet recorded.)
C36_SameStateRejected ==
    SameStateDelivered
        => /\ hist.last.code = 400
           /\ hist.last.after = hist.last.before
           /\ db[hist.last.run] = hist.last.before

\* PENDING has been delivered for a run stored as RUNNING and was answered
\* with 400.
C36_Witness ==
    /\ SameStateDelivered
    /\ hist.last.before.state = "RUNNING"
    /\ hist.last.payload.status = "PENDING"
    /\ hist.last.code = 400
    /\ db[hist.last.run].state = "RUNNING"


\* --------------------------------------------------------- startup recovery

\* No request has been handled and the daemon is in the first iteration of
\* its first process: a run that has left QUEUED was dispatched by this
\* daemon, in this iteration.
DispatchedThisIteration(r) ==
    /\ restarts = 0
    /\ requests = 0
    /\ ~ checked_existing_runs
    /\ db[r].state # "QUEUED"

\* C37: the start-up check is made only while the daemon has not made it; a
\* run it finds that this daemon does not execute is handed to a monitoring
\* task when its outputs hold an omics_run_id and is marked CANCELED with
\* end_time otherwise; a run dispatched in the same iteration is not marked
\* CANCELED by the check.
C37_RecoveryOnceSparesDispatched ==
    [][ /\ (mon'.pc = "recover" /\ mon.pc # "recover") => ~ checked_existing_runs
        /\ \A r \in RunIds :
              /\ (RecoverRun(r) /\ r \notin active_runs) =>
                    IF "omics_run_id" \in OutputsOrEmpty(db[r].outputs)
                    THEN task'[r].pc = "monitor_existing" /\ r \in active_runs'
                    ELSE db'[r].state = "CANCELED" /\ db'[r].end_time # NULL
              /\ (RecoverRun(r) /\ DispatchedThisIteration(r)) => db'[r] = db[r] ]_vars

\* In the daemon's first iteration, with no request handled, the start-up
\* check has queried run r as INITIALIZING while its task was active; the
\* task has since stored SYSTEM_ERROR and ended, and the check is about to
\* process r.
C37_FailingInput ==
    \E r \in RunIds :
        /\ DispatchedThisIteration(r)
        /\ mon.pc = "recover"
        /\ r \in mon.pending
        /\ r \notin mon.with_omics_run_id
        /\ r \notin active_runs
        /\ task[r].pc = "none"
        /\ db[r].state = "SYSTEM_ERROR"


\* ------------------------------------------------- states of the response

\* C38: a callback answered with success reports as previous_state the state
\* the run was stored in before the call and as new_state the state it is
\* stored in after the call.
C38_ResponseReportsStoredStates ==
    hist.last.code = 200
        => /\ hist.last.previous_state = hist.last.before.state
           /\ hist.last.new_state = hist.last.after.state
           /\ hist.last.new_state = db[hist.last.run].state

\* COMPLETED has been applied to a RUNNING run and answered RUNNING ->
\* COMPLETE; the next delivery, RUNNING, has been absorbed and answered
\* COMPLETE -> COMPLETE.
C38_Witness ==
    /\ hist.prev.code = 200
    /\ hist.last.code = 200
    /\ hist.prev.run = hist.last.run
    /\ hist.prev.previous_state = "RUNNING"
    /\ hist.prev.new_state = "COMPLETE"
    /\ hist.last.payload.status = "RUNNING"
    /\ hist.last.previous_state = "COMPLETE"
    /\ hist.last.new_state = "COMPLETE"
    /\ db[hist.last.run].state = "COMPLETE"

====
